---- MODULE Spec2Model ----
(***************************************************************************)
(* Model of formulario_ST_V13.py: the intake form for technical-service    *)
(* requests (validation rules, security gate, persistence transaction and  *)
(* the post-commit steps of procesar_formulario).                          *)
(*                                                                         *)
(* Conventions.  A Python dictionary is a TLA+ record whose DOMAIN is the  *)
(* set of keys present; a key holding None is modelled as an absent key.   *)
(* Free text is a sequence of one-character strings, so that strip() and   *)
(* the sanitizers are computed character by character; the value of a      *)
(* selectbox is a string.                                                  *)
(***************************************************************************)
EXTENDS Integers, Sequences, FiniteSets, TLC

VARIABLES
    arg,            \* input of the function under check (function-level specification)
    ret,            \* its result
    session_state,  \* st.session_state: a dictionary
    bd,             \* the database: committed rows and sequences
    cloudinary,     \* object storage: the uploads made, in order
    correos,        \* the confirmation emails delivered, in order
    pc,             \* where the script run stands: "form" between runs
    loc,            \* the locals of the run of procesar_formulario
    hist,           \* what the current submit event has done so far, in order
    reloj,          \* minutes elapsed when the last submit event happened
    entorno,        \* the deployment: is python-magic importable, which steps may fail
    aprobadas       \* the times of the submit events of this browser session that the
                    \* security gate approved, in order

varsFunciones == <<arg, ret>>
varsFlujo == <<session_state, bd, cloudinary, correos, pc, loc, hist, reloj, entorno, aprobadas>>
vars == <<varsFunciones, varsFlujo>>

\* no call of the function-level specification made yet
SinResultado == [fn |-> "ninguna"]

-----------------------------------------------------------------------------
(* Bounds of the model *)

MaxEquipos == 2      \* longest equipment list drawn as an input
MaxBorrados == 2     \* how many mandatory fields an input may have cleared at once
MaxFilas == 3        \* longest equipment list handed to insertar_solicitud on its own
MaxReloj == 2        \* how many submit events a behaviour of the form has
MaxTexto == 4        \* longest text handed to sanitizar_texto on its own

-----------------------------------------------------------------------------
(* Reference data: the placeholder (index 0) and one real option of each list *)

PH_TIPO == "Seleccionar tipo..."
PH_MARCA == "Seleccionar marca..."
PH_MODELO == "Seleccionar modelo..."
PH_COMERCIAL == "Seleccionar comercial..."
PH_SOLICITANTE == "Seleccionar solicitante..."

M_ST == "Servicio Técnico (reparaciones de equipos en general)"
M_PV == "Servicio Post Venta (para alguno de nuestros productos adquiridos)"
M_FC == "Cambio por falla de funcionamiento crítica"
M_BA == "Baja de Alquiler"
M_CA == "Cambio de Alquiler"
M_STOCK == "Equipo de Stock"
M_DEMO == "Baja de demo"

Motivos == {M_ST, M_PV, M_FC, M_BA, M_CA, M_STOCK, M_DEMO}

Q_COL == "Colaborador de Syemed"
Q_DIS == "Distribuidor"
Q_INS == "Institución"
Q_PAC == "Paciente/Particular"

QuienCompleta == {Q_COL, Q_DIS, Q_INS, Q_PAC}
EquipoCorrespondeA == {Q_PAC, Q_DIS, Q_INS, M_STOCK, M_DEMO}

-----------------------------------------------------------------------------
(* Dictionaries and text *)

\* keys whose value is free text (a sequence of characters) or a list
ListKeys == {"nombre_fantasia", "razon_social", "cuit", "contacto_nombre",
             "contacto_telefono", "nombre_apellido_paciente", "telefono_paciente",
             "motivo_cambio_alquiler", "detalle_fallo", "comentarios_caso",
             "diagnostico_paciente", "numero_serie", "fallas_problemas", "equipos",
             "fotos_fallas", "archivos_urls", "rate_limit"}

\* the falsy value of a key's type: '' for a selectbox, '' / [] for text and lists
Vacio(k) == IF k \in ListKeys THEN <<>> ELSE ""

\* data.get(k) and data.get(k, ''): None and '' are both falsy
Get(d, k) == IF k \in DOMAIN d THEN d[k] ELSE Vacio(k)

\* `not data.get(k)`
Falsy(d, k) == Get(d, k) = Vacio(k)

\* d with key k removed
Quitar(d, k) == [x \in (DOMAIN d) \ {k} |-> d[x]]

\* d.update(e)
Actualizar(d, e) == [x \in (DOMAIN d) \cup (DOMAIN e) |-> IF x \in DOMAIN e THEN e[x] ELSE d[x]]

\* d with key k set to v (data[k] = v)
Poner(d, k, v) == [x \in (DOMAIN d) \cup {k} |-> IF x = k THEN v ELSE d[x]]

EsEspacio(c) == c \in {" ", "\n", "\t"}

RECURSIVE LStrip(_)
LStrip(s) == IF s # <<>> /\ EsEspacio(Head(s)) THEN LStrip(Tail(s)) ELSE s

RECURSIVE RStrip(_)
RStrip(s) == IF s # <<>> /\ EsEspacio(s[Len(s)]) THEN RStrip(SubSeq(s, 1, Len(s) - 1)) ELSE s

\* str.strip()
Strip(s) == RStrip(LStrip(s))

-----------------------------------------------------------------------------
(* 4.1 Validation rules: validar_campos_obligatorios *)

\* one entry of the list `errores`; i is the equipment number of a per-row
\* message (the {i} of the f-string) and 0 for every other message
Err(msg, i) == [msg |-> msg, i |-> i]

\* if not data.get(k): errores.append(msg)
Obligatorio(d, k, msg) == IF Falsy(d, k) THEN <<Err(msg, 0)>> ELSE <<>>

\* if not data.get(k) or data.get(k) == placeholder: errores.append(msg)
ObligatorioSel(d, k, ph, msg, i) ==
    IF Falsy(d, k) \/ Get(d, k) = ph THEN <<Err(msg, i)>> ELSE <<>>

ErroresColDistribuidor(d) ==
       Obligatorio(d, "nombre_fantasia", "Nombre de Fantasía (Distribuidor) es obligatorio")
    \o Obligatorio(d, "razon_social", "Razón Social (Distribuidor) es obligatorio")
    \o Obligatorio(d, "cuit", "CUIT (Distribuidor) es obligatorio")
    \o Obligatorio(d, "contacto_nombre", "Nombre de contacto (Distribuidor) es obligatorio")
    \o Obligatorio(d, "contacto_telefono", "Teléfono de contacto (Distribuidor) es obligatorio")
    \o Obligatorio(d, "contacto_tecnico", "Debe indicar si quiere contacto técnico (Distribuidor)")
    \o Obligatorio(d, "motivo_solicitud", "Motivo de la solicitud (Distribuidor) es obligatorio")

ErroresColInstitucion(d) ==
       Obligatorio(d, "nombre_fantasia", "Nombre del Hospital/Clínica (Institución) es obligatorio")
    \o Obligatorio(d, "razon_social", "Razón Social (Institución) es obligatorio")
    \o Obligatorio(d, "contacto_nombre", "Nombre de contacto (Institución) es obligatorio")
    \o Obligatorio(d, "contacto_telefono", "Teléfono de contacto (Institución) es obligatorio")
    \o Obligatorio(d, "contacto_tecnico", "Debe indicar si quiere contacto técnico (Institución)")
    \o Obligatorio(d, "motivo_solicitud", "Motivo de la solicitud (Institución) es obligatorio")

ErroresColPaciente(d) ==
       Obligatorio(d, "nombre_apellido_paciente", "Nombre y Apellido (Paciente) es obligatorio")
    \o Obligatorio(d, "telefono_paciente", "Teléfono (Paciente) es obligatorio")
    \o Obligatorio(d, "equipo_origen", "Origen del equipo (Paciente) es obligatorio")
    \o Obligatorio(d, "motivo_solicitud", "Motivo de la solicitud (Paciente) es obligatorio")

ErroresColaborador(d) ==
    LET equipo_corresponde_a == Get(d, "equipo_corresponde_a") IN
       Obligatorio(d, "area_solicitante", "Área Solicitante es obligatorio")
    \o ObligatorioSel(d, "solicitante", PH_SOLICITANTE, "Solicitante es obligatorio", 0)
    \o Obligatorio(d, "equipo_corresponde_a", "'El equipo corresponde a' es obligatorio")
    \o (CASE equipo_corresponde_a = Q_DIS -> ErroresColDistribuidor(d)
          [] equipo_corresponde_a = Q_INS -> ErroresColInstitucion(d)
          [] equipo_corresponde_a = Q_PAC -> ErroresColPaciente(d)
          [] OTHER -> <<>>)

ErroresDistribuidor(d) ==
       Obligatorio(d, "nombre_fantasia", "Nombre de Fantasía es obligatorio")
    \o Obligatorio(d, "razon_social", "Razón Social es obligatorio")
    \o Obligatorio(d, "cuit", "CUIT es obligatorio")
    \o Obligatorio(d, "contacto_nombre", "Nombre de contacto es obligatorio")
    \o Obligatorio(d, "contacto_telefono", "Teléfono de contacto es obligatorio")
    \o ObligatorioSel(d, "comercial_syemed", PH_COMERCIAL, "Comercial de contacto en Syemed es obligatorio", 0)
    \o Obligatorio(d, "contacto_tecnico", "Debe indicar si quiere contacto técnico")
    \o Obligatorio(d, "motivo_solicitud", "Motivo de la solicitud es obligatorio")

ErroresInstitucion(d) ==
       Obligatorio(d, "nombre_fantasia", "Nombre del Hospital/Clínica/Sanatorio es obligatorio")
    \o Obligatorio(d, "razon_social", "Razón Social es obligatorio")
    \o Obligatorio(d, "contacto_nombre", "Nombre de contacto es obligatorio")
    \o Obligatorio(d, "contacto_telefono", "Teléfono de contacto es obligatorio")
    \o ObligatorioSel(d, "comercial_syemed", PH_COMERCIAL, "Comercial de contacto en Syemed es obligatorio", 0)
    \o Obligatorio(d, "contacto_tecnico", "Debe indicar si quiere contacto técnico")
    \o Obligatorio(d, "motivo_solicitud", "Motivo de la solicitud es obligatorio")

ErroresPaciente(d) ==
       Obligatorio(d, "nombre_apellido_paciente", "Nombre y Apellido es obligatorio")
    \o Obligatorio(d, "telefono_paciente", "Teléfono de contacto es obligatorio")
    \o Obligatorio(d, "equipo_origen", "Origen del equipo es obligatorio")
    \o Obligatorio(d, "motivo_solicitud", "Motivo de la solicitud es obligatorio")

\* if not data.get(k, '').strip(): errores.append(msg)
ObligatorioTexto(d, k, msg) == IF Strip(Get(d, k)) = <<>> THEN <<Err(msg, 0)>> ELSE <<>>

\* ErroresMotivo without the rule of the critical-failure motive
ErroresMotivoSinFallaCritica(d) ==
    LET motivo == Get(d, "motivo_solicitud") IN
    CASE motivo = M_CA ->
            ObligatorioTexto(d, "motivo_cambio_alquiler",
                             "Debe especificar el motivo del cambio de alquiler")
      [] motivo \in {M_ST, M_PV} ->
            IF Get(d, "fallas_problemas") = <<>> /\ Strip(Get(d, "detalle_fallo")) = <<>>
            THEN <<Err("Debe seleccionar al menos una opción o especificar en 'Otros' el motivo de su solicitud", 0)>>
            ELSE <<>>
      [] OTHER -> <<>>

ErroresMotivo(d) ==
    LET motivo == Get(d, "motivo_solicitud") IN
    CASE motivo = M_CA ->
            ObligatorioTexto(d, "motivo_cambio_alquiler",
                             "Debe especificar el motivo del cambio de alquiler")
      [] motivo = M_FC ->
            ObligatorioTexto(d, "detalle_fallo",
                             "Debe describir la falla crítica que justifica el cambio")
      [] motivo \in {M_ST, M_PV} ->
            IF Get(d, "fallas_problemas") = <<>> /\ Strip(Get(d, "detalle_fallo")) = <<>>
            THEN <<Err("Debe seleccionar al menos una opción o especificar en 'Otros' el motivo de su solicitud", 0)>>
            ELSE <<>>
      [] OTHER -> <<>>

\* eq.get('tipo_equipo') and eq.get('tipo_equipo') != "Seleccionar tipo..."
TipoReal(eq) == ~Falsy(eq, "tipo_equipo") /\ Get(eq, "tipo_equipo") # PH_TIPO

ErroresDeEquipo(equipo, i) ==
       ObligatorioSel(equipo, "marca", PH_MARCA, "La marca del equipo {i} es obligatoria", i)
    \o ObligatorioSel(equipo, "modelo", PH_MODELO, "El modelo del equipo {i} es obligatorio", i)
    \o (IF Falsy(equipo, "numero_serie")
        THEN <<Err("El número de serie del equipo {i} es obligatorio", i)>> ELSE <<>>)

RECURSIVE ErroresFilas(_, _)
\* for i, equipo in enumerate(equipos_validos, 1): the rows from number i on
ErroresFilas(equipos_validos, i) ==
    IF i > Len(equipos_validos) THEN <<>>
    ELSE ErroresDeEquipo(equipos_validos[i], i) \o ErroresFilas(equipos_validos, i + 1)

RECURSIVE ErroresFilasPorPosicion(_, _)
\* per-row errors numbered by the row's position in data['equipos']
ErroresFilasPorPosicion(equipos, i) ==
    IF i > Len(equipos) THEN <<>>
    ELSE (IF TipoReal(equipos[i]) THEN ErroresDeEquipo(equipos[i], i) ELSE <<>>)
         \o ErroresFilasPorPosicion(equipos, i + 1)

\* ErroresEquipos numbering the rows before the placeholder rows are dropped
ErroresEquiposPorPosicion(d) ==
    LET equipos_validos == SelectSeq(Get(d, "equipos"), TipoReal) IN
    IF equipos_validos = <<>>
    THEN <<Err("Debe registrar al menos un equipo", 0)>>
    ELSE ErroresFilasPorPosicion(Get(d, "equipos"), 1)

ErroresEquipos(d) ==
    LET equipos_validos == SelectSeq(Get(d, "equipos"), TipoReal) IN
    IF equipos_validos = <<>>
    THEN <<Err("Debe registrar al menos un equipo", 0)>>
    ELSE ErroresFilas(equipos_validos, 1)

ErroresRama(d) ==
    LET quien_completa == Get(d, "quien_completa") IN
    CASE quien_completa = Q_COL -> ErroresColaborador(d)
      [] quien_completa = Q_DIS -> ErroresDistribuidor(d)
      [] quien_completa = Q_INS -> ErroresInstitucion(d)
      [] quien_completa = Q_PAC -> ErroresPaciente(d)
      [] OTHER -> <<>>

\* validar_campos_obligatorios returning at the first error found
validar_campos_obligatorios_corto(d) ==
    LET errores ==
               Obligatorio(d, "email", "El correo electrónico es obligatorio")
            \o Obligatorio(d, "quien_completa", "Debe indicar quién completa la solicitud")
            \o ErroresRama(d)
            \o ErroresMotivo(d)
            \o ErroresEquipos(d)
        primero == IF errores = <<>> THEN <<>> ELSE <<Head(errores)>>
    IN [es_valido |-> Len(primero) = 0, errores |-> primero]

validar_campos_obligatorios(d) ==
    LET errores ==
               Obligatorio(d, "email", "El correo electrónico es obligatorio")
            \o Obligatorio(d, "quien_completa", "Debe indicar quién completa la solicitud")
            \o ErroresRama(d)
            \o ErroresMotivo(d)
            \o ErroresEquipos(d)
    IN [es_valido |-> Len(errores) = 0, errores |-> errores]
-----------------------------------------------------------------------------
(* 4.3 Security gate: sanitizers *)

Digitos == {"0", "1", "2", "3", "4", "5", "6", "7", "8", "9"}
Letras == {"a", "b", "c", "s", "x", "A", "B", "S", "X"}

\* the characters sanitizar_texto deletes ("backtick" stands for the grave accent,
\* which a TLA+ string cannot hold)
CaracteresPeligrosos == {"<", ">", "{", "}", "|", "\\", "^", "~", "[", "]", "backtick"}

\* texto[:max_length]
Truncar(texto, max_length) ==
    IF Len(texto) <= max_length THEN texto ELSE SubSeq(texto, 1, max_length)

NoPeligroso(c) == c \notin CaracteresPeligrosos

RECURSIVE Colapsar(_)
\* every run of blanks of a stripped text becomes one space
Colapsar(t) ==
    IF t = <<>> THEN <<>>
    ELSE IF EsEspacio(Head(t)) THEN <<" ">> \o Colapsar(LStrip(t))
         ELSE <<Head(t)>> \o Colapsar(Tail(t))

\* a join that only strips the ends of the text
UnirPalabrasSinColapsar(texto) == Strip(texto)

\* ' '.join(texto.split())
UnirPalabras(texto) == Colapsar(Strip(texto))

sanitizar_texto(texto, max_length) ==
    IF texto = <<>> THEN <<>>
    ELSE Strip(UnirPalabras(SelectSeq(Truncar(texto, max_length), NoPeligroso)))

\* [a-zA-Z0-9\-\s]
PermitidoEnSerie(c) == c \in Letras \cup Digitos \cup {"-"} \/ EsEspacio(c)

sanitizar_numero_serie(numero_serie) ==
    IF numero_serie = <<>> THEN <<>>
    ELSE Strip(SelectSeq(numero_serie, PermitidoEnSerie))

\* addresses a user may type in the email widget
EMAIL_OK == "user@dominio.com"
EMAIL_MAYUS == "User@Dominio.com"
EMAIL_UTF8 == "usér@dominio.com"
EMAIL_MALO == "sin-arroba"

Emails == {"", EMAIL_MALO, EMAIL_OK, EMAIL_MAYUS, EMAIL_UTF8}

\* validar_email_formato: (es_valido, email_normalizado) of email-validator, which accepts
\* an internationalised local part and lower-cases the domain only
validar_email_formato(email) ==
    CASE email = EMAIL_OK -> [es_valido |-> TRUE, normalizado |-> EMAIL_OK]
      [] email = EMAIL_MAYUS -> [es_valido |-> TRUE, normalizado |-> "User@dominio.com"]
      [] email = EMAIL_UTF8 -> [es_valido |-> TRUE, normalizado |-> EMAIL_UTF8]
      [] OTHER -> [es_valido |-> FALSE, normalizado |-> ""]

\* sanitizar_email: None ("" here) unless the ASCII-only pattern matches; else lower-cased
sanitizar_email(email) ==
    CASE email \in {EMAIL_OK} -> EMAIL_OK
      [] email \in {EMAIL_MAYUS, "User@dominio.com"} -> EMAIL_OK
      [] OTHER -> ""

-----------------------------------------------------------------------------
(* 4.3 Security gate: file validator.  A file is a record: name (the parts  *)
(* of the name between dots), size (bytes), mime (what its content is).    *)

EXT_IMAGENES == {"jpg", "jpeg", "png", "gif", "bmp", "webp"}
EXT_VIDEOS == {"mp4", "mov", "avi", "mkv", "webm"}
EXT_DOCUMENTOS == {"pdf", "doc", "docx", "txt"}

MIME_TYPES_PERMITIDOS ==
    {"image/jpeg", "image/png", "image/gif", "image/bmp", "image/webp",
     "video/mp4", "video/quicktime", "video/x-msvideo", "video/x-matroska", "video/webm",
     "application/pdf", "application/msword",
     "application/vnd.openxmlformats-officedocument.wordprocessingml.document",
     "text/plain"}

TAMANO_MAX_IMAGEN == 10
TAMANO_MAX_VIDEO == 50
TAMANO_MAX_DOCUMENTO == 5
MB == 1048576

EXT_SOSPECHOSAS == {"exe", "bat", "cmd", "sh", "ps1", "scr", "vbs", "js", "jar", "com",
                    "pif", "msi", "dll", "sys"}

\* str.lower() of one part of a file name
Lower(parte) ==
    CASE parte = "JPG" -> "jpg"
      [] parte = "EXE" -> "exe"
      [] parte = "PDF" -> "pdf"
      [] OTHER -> parte

\* nombre.lower().split('.')[-1]
UltimaParte(name) == Lower(name[Len(name)])

\* a name scan without the test of multiple extensions
escanear_nombre_archivo_sin_partes(name) ==
    IF Len(name) >= 2 /\ UltimaParte(name) \in EXT_SOSPECHOSAS THEN FALSE ELSE TRUE

escanear_nombre_archivo(name) ==
    IF Len(name) >= 2 /\ UltimaParte(name) \in EXT_SOSPECHOSAS THEN FALSE
    ELSE IF Len(name) > 2 THEN FALSE
    ELSE TRUE

validar_extension_archivo(name) ==
    UltimaParte(name) \in EXT_IMAGENES \cup EXT_VIDEOS \cup EXT_DOCUMENTOS

validar_tamano_archivo(archivo) ==
    LET extension == UltimaParte(archivo.name) IN
    CASE extension \in EXT_IMAGENES -> ~(archivo.size > TAMANO_MAX_IMAGEN * MB)
      [] extension \in EXT_VIDEOS -> ~(archivo.size > TAMANO_MAX_VIDEO * MB)
      [] extension \in EXT_DOCUMENTOS -> ~(archivo.size > TAMANO_MAX_DOCUMENTO * MB)
      [] OTHER -> TRUE

\* validar_mime_type: magic.from_buffer raises when python-magic is not
\* installed (NameError), which the function's own except turns into (False, "unknown")
validar_mime_type(archivo, magic_disponible) ==
    IF magic_disponible THEN archivo.mime \in MIME_TYPES_PERMITIDOS ELSE FALSE

validar_archivo_completo(archivo, magic_disponible) ==
    IF ~escanear_nombre_archivo(archivo.name) THEN FALSE
    ELSE IF ~validar_extension_archivo(archivo.name) THEN FALSE
    ELSE IF ~validar_tamano_archivo(archivo) THEN FALSE
    ELSE IF ~validar_mime_type(archivo, magic_disponible) THEN FALSE
    ELSE TRUE

-----------------------------------------------------------------------------
(* 4.2 Category code deriver *)

\* a warranty test that looks at the first equipment row only
PrimeroEnGarantia(equipos) ==
    equipos # <<>> /\ ("en_garantia" \in DOMAIN Head(equipos)) /\ Head(equipos).en_garantia

RECURSIVE AlgunoEnGarantia(_)
\* any(equipo.get('en_garantia', False) for equipo in equipos)
AlgunoEnGarantia(equipos) ==
    IF equipos = <<>> THEN FALSE
    ELSE (("en_garantia" \in DOMAIN Head(equipos)) /\ Head(equipos).en_garantia)
         \/ AlgunoEnGarantia(Tail(equipos))

\* a table of special motives that lacks the rental change
codigo_motivo_especial_sin_cambio(motivo) ==
    CASE motivo = M_STOCK -> "S"
      [] motivo = M_DEMO -> "BD"
      [] motivo = M_BA -> "A/BA"
      [] OTHER -> ""

\* lines 1163-1170: the fixed code of a special motive; "" when the motive is none of them
codigo_motivo_especial(motivo) ==
    CASE motivo = M_STOCK -> "S"
      [] motivo = M_DEMO -> "BD"
      [] motivo = M_BA -> "A/BA"
      [] motivo = M_CA -> "A/CA"
      [] OTHER -> ""

\* a table of general motives whose last branch is a default instead of a return
codigo_motivo_general_por_defecto(motivo) ==
    CASE motivo = M_ST -> "ST/R"
      [] motivo = M_PV -> "AT"
      [] OTHER -> "FC"

\* a table of general motives with the codes of the first two exchanged
codigo_motivo_general_cruzado(motivo) ==
    CASE motivo = M_ST -> "AT"
      [] motivo = M_PV -> "ST/R"
      [] motivo = M_FC -> "FC"
      [] OTHER -> ""

\* lines 1173-1180: codigo_motivo of a general motive; "" when the function returns "N/A"
codigo_motivo_general(motivo) ==
    CASE motivo = M_ST -> "ST/R"
      [] motivo = M_PV -> "AT"
      [] motivo = M_FC -> "FC"
      [] OTHER -> ""

generar_codigo_categoria(d) ==
    LET motivo == Get(d, "motivo_solicitud")
        equipo_propiedad == Get(d, "equipo_propiedad")
        quien_completa == Get(d, "quien_completa")
        en_garantia_data == Get(d, "en_garantia")
        tiene_garantia ==
            CASE en_garantia_data = "Sí" -> TRUE
              [] en_garantia_data \in {"No", "No lo sé"} -> FALSE
              [] OTHER -> AlgunoEnGarantia(Get(d, "equipos"))
        codigo_motivo == codigo_motivo_general(motivo)
        equipo_origen == Get(d, "equipo_origen")
    IN IF codigo_motivo_especial(motivo) # "" THEN codigo_motivo_especial(motivo)
       ELSE IF codigo_motivo = "" THEN "N/A"
       ELSE CASE quien_completa \in {Q_DIS, Q_INS, Q_COL} /\ equipo_propiedad = "Alquilado" ->
                    "A/" \o codigo_motivo
              [] quien_completa \in {Q_DIS, Q_INS, Q_COL} /\ equipo_propiedad = "Propio" ->
                    IF tiene_garantia THEN "G/" \o codigo_motivo ELSE codigo_motivo
              [] quien_completa = Q_PAC /\ equipo_origen = "Se lo entregaron" -> codigo_motivo
              [] quien_completa = Q_PAC /\ equipo_origen = "Lo compró de manera directa" ->
                    IF tiene_garantia THEN "G/" \o codigo_motivo ELSE codigo_motivo
              [] OTHER -> "N/A"

-----------------------------------------------------------------------------
(* 4.4 Persistence layer: insertar_solicitud.  The database holds the      *)
(* committed rows of the three tables and its sequences (serial ids and    *)
(* ost), which a rollback does not rewind.                                 *)

BDVacia ==
    [solicitudes |-> <<>>, equipos |-> <<>>, archivos_adjuntos |-> <<>>,
     sec_solicitud |-> 0, sec_equipo |-> 0, sec_ost |-> 0]

\* a row test that lets the placeholder type through
SeInsertaConPlaceholder(equipo) == ~Falsy(equipo, "tipo_equipo")

\* if equipo.get('tipo_equipo') and equipo['tipo_equipo'] != "Seleccionar tipo..."
SeInserta(equipo) == ~Falsy(equipo, "tipo_equipo") /\ equipo.tipo_equipo # PH_TIPO

RECURSIVE SentenciasEquipos(_, _)
\* for i, equipo in enumerate(data.get('equipos', []), 1): one INSERT per row of real type
SentenciasEquipos(equipos, i) ==
    IF i > Len(equipos) THEN <<>>
    ELSE (IF SeInserta(equipos[i])
          THEN <<[op |-> "insert_equipo", i |-> i, equipo |-> equipos[i]]>> ELSE <<>>)
         \o SentenciasEquipos(equipos, i + 1)

RECURSIVE SentenciasArchivos(_)
SentenciasArchivos(archivos_urls) ==
    IF archivos_urls = <<>> THEN <<>>
    ELSE <<[op |-> "insert_archivo", archivo_info |-> Head(archivos_urls)]>>
         \o SentenciasArchivos(Tail(archivos_urls))

\* the statements insertar_solicitud sends, in order
Sentencias(d) ==
       <<[op |-> "connect"], [op |-> "insert_solicitud"], [op |-> "probe"]>>
    \o (IF Get(d, "motivo_solicitud") # M_PV
        THEN SentenciasEquipos(Get(d, "equipos"), 1) ELSE <<>>)
    \o SentenciasArchivos(Get(d, "archivos_urls"))
    \o <<[op |-> "commit"]>>

\* the row of table solicitudes (the columns the model follows)
FilaSolicitud(d, id, pdf_url) ==
    [id |-> id, email_solicitante |-> Get(d, "email"),
     quien_completa |-> Get(d, "quien_completa"),
     motivo_solicitud |-> Get(d, "motivo_solicitud"),
     categoria |-> generar_codigo_categoria(d), estado |-> "Pendiente", pdf_url |-> pdf_url]

FilaEquipo(equipo, id, ost, solicitud_id, i, factura_url_existe) ==
    [id |-> id, ost |-> ost, solicitud_id |-> solicitud_id, numero_equipo |-> i,
     tipo_equipo |-> equipo.tipo_equipo, marca |-> Get(equipo, "marca"),
     modelo |-> Get(equipo, "modelo"), numero_serie |-> Get(equipo, "numero_serie"),
     factura_url |-> IF factura_url_existe THEN Get(equipo, "factura_url") ELSE ""]

\* a reference that takes the equipment number of a photo for the id of the row
EquipoIdRefPorNumero(archivo_info, equipos_ids) ==
    CASE archivo_info.tipo = "factura" ->
            IF archivo_info.equipo_num = "todos" /\ equipos_ids # <<>> THEN equipos_ids[1] ELSE 0
      [] archivo_info.tipo = "foto_video" -> archivo_info.equipo_num
      [] OTHER -> 0

\* equipo_id of an attachment row (0 is NULL)
EquipoIdRef(archivo_info, equipos_ids) ==
    CASE archivo_info.tipo = "factura" ->
            IF archivo_info.equipo_num = "todos" /\ equipos_ids # <<>> THEN equipos_ids[1] ELSE 0
      [] archivo_info.tipo = "foto_video" ->
            IF archivo_info.equipo_num <= Len(equipos_ids)
            THEN equipos_ids[archivo_info.equipo_num] ELSE 0
      [] OTHER -> 0

CategoriaArchivo(archivo_info) ==
    CASE archivo_info.tipo = "factura" -> "factura"
      [] archivo_info.tipo = "foto_video" -> "falla"
      [] OTHER -> "general"

\* the effect of one statement on the open transaction tx
Aplicar(tx, st, d, factura_url_existe) ==
    CASE st.op = "insert_solicitud" ->
            LET id == tx.bd.sec_solicitud + 1 IN
            [tx EXCEPT !.solicitud_id = id,
                       !.bd.sec_solicitud = id,
                       !.bd.solicitudes = Append(@, FilaSolicitud(d, id, ""))]
      [] st.op = "insert_equipo" ->
            LET equipo_id == tx.bd.sec_equipo + 1
                ost == tx.bd.sec_ost + 1
            IN [tx EXCEPT !.bd.sec_equipo = equipo_id,
                          !.bd.sec_ost = ost,
                          !.bd.equipos = Append(@, FilaEquipo(st.equipo, equipo_id, ost,
                                                              tx.solicitud_id, st.i, factura_url_existe)),
                          !.equipos_ids = Append(@, equipo_id),
                          !.equipos_osts = Append(@, ost)]
      [] st.op = "insert_archivo" ->
            [tx EXCEPT !.bd.archivos_adjuntos =
                Append(@, [solicitud_id |-> tx.solicitud_id,
                           equipo_id |-> EquipoIdRef(st.archivo_info, tx.equipos_ids),
                           nombre_archivo |-> st.archivo_info.nombre,
                           url_cloudinary |-> st.archivo_info.url,
                           categoria |-> CategoriaArchivo(st.archivo_info)])]
      [] OTHER -> tx

RECURSIVE Ejecutar(_, _, _, _, _, _)
\* runs statements k.. of the list; statement number `falla` raises (0: none does)
Ejecutar(tx, sentencias, k, falla, d, factura_url_existe) ==
    IF k > Len(sentencias) THEN [ok |-> TRUE, tx |-> tx]
    ELSE IF k = falla THEN [ok |-> FALSE, tx |-> tx]
    ELSE Ejecutar(Aplicar(tx, sentencias[k], d, factura_url_existe),
                  sentencias, k + 1, falla, d, factura_url_existe)

\* a rollback that leaves the rows written so far in place
RollbackParcial(base, tx) == tx.bd

\* conn.rollback(): the rows of the transaction are dropped; the sequences keep their values
Rollback(base, tx) ==
    [base EXCEPT !.sec_solicitud = tx.bd.sec_solicitud,
                 !.sec_equipo = tx.bd.sec_equipo,
                 !.sec_ost = tx.bd.sec_ost]

\* conn.commit()
Commit(base, tx) == tx.bd

\* insertar_solicitud(data, pdf_url=None) on database bd: (exito, solicitud_id | error, equipos_osts)
\* and the database it leaves, when it runs on database base
insertar_solicitud(d, base, falla, factura_url_existe) ==
    LET tx0 == [bd |-> base, solicitud_id |-> 0, equipos_ids |-> <<>>, equipos_osts |-> <<>>]
        r == Ejecutar(tx0, Sentencias(d), 1, falla, d, factura_url_existe)
    IN IF r.ok
       THEN [exito |-> TRUE, solicitud_id |-> r.tx.solicitud_id, error |-> "",
             equipos_osts |-> r.tx.equipos_osts, bd |-> Commit(base, r.tx)]
       ELSE [exito |-> FALSE, solicitud_id |-> 0, error |-> "str(e)",
             equipos_osts |-> <<>>, bd |-> Rollback(base, r.tx)]

-----------------------------------------------------------------------------
(* 4.3 Security gate: rate limiter, honeypot, suspicious events and         *)
(* aplicar_seguridad_formulario.  ss is st.session_state.                   *)

MAX_SOLICITUDES == 5
VENTANA_MINUTOS == 60

\* obtener_rate_limit_key(): the session's user_id, created from the time on first use
ConUserId(ss, ahora) == IF "user_id" \in DOMAIN ss THEN ss ELSE Poner(ss, "user_id", ahora)

\* [timestamp for timestamp in ... if ahora - timestamp < timedelta(minutes=ventana_minutos)]
Recientes(marcas, ahora, ventana_minutos) ==
    SelectSeq(marcas, LAMBDA t : ahora - t < ventana_minutos)

\* verificar_rate_limit(max_solicitudes, ventana_minutos): (permitido, session_state after pruning)
verificar_rate_limit(ss, ahora, max_solicitudes, ventana_minutos) ==
    LET ss1 == IF "rate_limit" \in DOMAIN ss THEN ss ELSE Poner(ss, "rate_limit", <<>>)
        ss2 == ConUserId(ss1, ahora)
        ss3 == Poner(ss2, "rate_limit", Recientes(ss2.rate_limit, ahora, ventana_minutos))
    IN [permitido |-> ~(Len(ss3.rate_limit) >= max_solicitudes), ss |-> ss3]

\* registrar_solicitud_rate_limit()
registrar_solicitud_rate_limit(ss, ahora) ==
    LET ss1 == ConUserId(ss, ahora)
    IN Poner(ss1, "rate_limit", Append(Get(ss1, "rate_limit"), ahora))

\* a honeypot test without the strip()
verificar_honeypot_sin_strip(honeypot_value) == honeypot_value = <<>>

\* verificar_honeypot(honeypot_value)
verificar_honeypot(honeypot_value) == honeypot_value = <<>> \/ Strip(honeypot_value) = <<>>

\* registrar_intento_sospechoso: the counter after the call
registrar_intento_sospechoso(ss, ahora) ==
    LET ss1 == ConUserId(ss, ahora)
        n == IF "intentos_sospechosos" \in DOMAIN ss1 THEN ss1.intentos_sospechosos ELSE 0
    IN Poner(ss1, "intentos_sospechosos", n + 1)

RECURSIVE TodosValidos(_, _)
TodosValidos(archivos, magic_disponible) ==
    IF archivos = <<>> THEN TRUE
    ELSE validar_archivo_completo(Head(archivos), magic_disponible)
         /\ TodosValidos(Tail(archivos), magic_disponible)

RECURSIVE FotosValidas(_, _)
\* step 3: the fotos_fallas of every row of data['equipos'] pass validar_archivo_completo
FotosValidas(equipos, magic_disponible) ==
    IF equipos = <<>> THEN TRUE
    ELSE TodosValidos(Get(Head(equipos), "fotos_fallas"), magic_disponible)
         /\ FotosValidas(Tail(equipos), magic_disponible)

CamposTexto == <<"comentarios_caso", "detalle_fallo", "diagnostico_paciente",
                 "nombre_fantasia", "razon_social", "contacto_nombre">>

RECURSIVE SanitizarCampos(_, _)
\* for campo in campos_texto: if campo in data and data[campo]: data[campo] = sanitizar_texto(...)
SanitizarCampos(d, campos) ==
    IF campos = <<>> THEN d
    ELSE LET campo == Head(campos)
             d1 == IF campo \in DOMAIN d /\ d[campo] # <<>>
                   THEN Poner(d, campo, sanitizar_texto(d[campo], 1000)) ELSE d
         IN SanitizarCampos(d1, Tail(campos))

\* for equipo in data.get('equipos', []): equipo['numero_serie'] = sanitizar_numero_serie(...)
SanitizarSeries(equipos) ==
    [i \in 1..Len(equipos) |->
        IF "numero_serie" \in DOMAIN equipos[i]
        THEN Poner(equipos[i], "numero_serie", sanitizar_numero_serie(equipos[i].numero_serie))
        ELSE equipos[i]]

\* aplicar_seguridad_formulario(data, None, data.get('facturas')): data never holds
\* the key 'facturas', so the invoice loop of step 3 has nothing to validate
aplicar_seguridad_formulario(ss, d, honeypot, ahora, magic_disponible) ==
    LET rl == verificar_rate_limit(ss, ahora, MAX_SOLICITUDES, VENTANA_MINUTOS)
        email == sanitizar_email(Get(d, "email"))
        d1 == Poner(d, "email", email)
        d2 == SanitizarCampos(d1, CamposTexto)
        d3 == IF "equipos" \in DOMAIN d2 THEN Poner(d2, "equipos", SanitizarSeries(d2.equipos)) ELSE d2
    IN IF ~rl.permitido
       THEN [aprobado |-> FALSE, razon |-> "RATE_LIMIT_EXCEDIDO",
             ss |-> registrar_intento_sospechoso(rl.ss, ahora), data |-> d]
       ELSE IF ~verificar_honeypot(honeypot)
       THEN [aprobado |-> FALSE, razon |-> "HONEYPOT_LLENO",
             ss |-> registrar_intento_sospechoso(rl.ss, ahora), data |-> d]
       ELSE IF ~FotosValidas(Get(d, "equipos"), magic_disponible)
       THEN [aprobado |-> FALSE, razon |-> "ARCHIVO_INVALIDO",
             ss |-> registrar_intento_sospechoso(rl.ss, ahora), data |-> d]
       ELSE IF email = ""
       THEN [aprobado |-> FALSE, razon |-> "EMAIL_INVALIDO", ss |-> rl.ss, data |-> d1]
       ELSE [aprobado |-> TRUE, razon |-> "",
             ss |-> registrar_solicitud_rate_limit(rl.ss, ahora), data |-> d3]

-----------------------------------------------------------------------------
(* The state of the form before anything is submitted *)

\* no PDF generated
SinPdf == [titulo |-> 0, tabla |-> <<>>]

\* the row of the equipment table of the PDF for an entry; ost 0 stands for "N/A"
FilaPdf(equipo, ost_equipo) ==
    [ost |-> ost_equipo, tipo_equipo |-> Get(equipo, "tipo_equipo"), marca |-> Get(equipo, "marca"),
     modelo |-> Get(equipo, "modelo"), numero_serie |-> Get(equipo, "numero_serie")]

RECURSIVE TablaPdf(_, _, _)
\* for i, equipo in enumerate(data.get('equipos', []), 1): the table rows from entry i on
TablaPdf(equipos, i, equipos_osts) ==
    IF i > Len(equipos) THEN <<>>
    ELSE (IF ~Falsy(equipos[i], "tipo_equipo") /\ equipos[i].tipo_equipo # PH_TIPO
          THEN <<FilaPdf(equipos[i], IF i - 1 < Len(equipos_osts) THEN equipos_osts[i] ELSE 0)>>
          ELSE <<>>)
         \o TablaPdf(equipos, i + 1, equipos_osts)

\* a PDF whose rows carry their position in the list as tracking number
generar_pdf_solicitud_por_posicion(data, solicitud_id, equipos_osts) ==
    [titulo |-> IF equipos_osts # <<>> THEN equipos_osts[1] ELSE solicitud_id,
     tabla |-> TablaPdf(Get(data, "equipos"), 1,
                        [i \in 1..Len(equipos_osts) |-> i])]

\* generar_pdf_solicitud(data, solicitud_id, equipos_osts): the number in the title and
\* the equipment table
generar_pdf_solicitud(data, solicitud_id, equipos_osts) ==
    [titulo |-> IF equipos_osts # <<>> THEN equipos_osts[1] ELSE solicitud_id,
     tabla |-> TablaPdf(Get(data, "equipos"), 1, equipos_osts)]

\* the locals of procesar_formulario when no run is in progress
LocVacio == [data |-> [equipos |-> <<>>], solicitud_id |-> 0, equipos_osts |-> <<>>, pdf |-> SinPdf]

\* main's first run has set form_key; nothing is stored, uploaded or sent
FlujoInicial ==
    /\ session_state = [form_key |-> 0]
    /\ bd = BDVacia
    /\ cloudinary = <<>>
    /\ correos = <<>>
    /\ pc = "form"
    /\ loc = LocVacio
    /\ hist = <<>>
    /\ reloj = 0
    /\ aprobadas = <<>>

-----------------------------------------------------------------------------
(* Inputs of the function-level check of validar_campos_obligatorios: a     *)
(* dictionary as the form builds it for one branch, with some of the       *)
(* branch's mandatory entries cleared.                                     *)

Ramas == {[quien |-> q, corresponde |-> c, motivo |-> m] :
              q \in QuienCompleta, c \in EquipoCorrespondeA \cup {""}, m \in Motivos}
         \ {r \in [quien : QuienCompleta, corresponde : EquipoCorrespondeA \cup {""}, motivo : Motivos] :
              (r.quien = Q_COL) = (r.corresponde = "")}

\* the pseudo-key of the rule "at least one option or a detail" of M_ST / M_PV
FALLAS_O_DETALLE == "fallas_problemas|detalle_fallo"

\* keys of the first equipment row, as clearable entries
CamposEquipo == {"eq.tipo_equipo", "eq.marca", "eq.modelo", "eq.numero_serie"}

CamposDeRama(r) ==
    {"email", "quien_completa"}
    \cup (CASE r.quien = Q_COL ->
                {"area_solicitante", "solicitante", "equipo_corresponde_a"}
                \cup (CASE r.corresponde = Q_DIS ->
                              {"nombre_fantasia", "razon_social", "cuit", "contacto_nombre",
                               "contacto_telefono", "contacto_tecnico", "motivo_solicitud"}
                        [] r.corresponde = Q_INS ->
                              {"nombre_fantasia", "razon_social", "contacto_nombre",
                               "contacto_telefono", "contacto_tecnico", "motivo_solicitud"}
                        [] r.corresponde = Q_PAC ->
                              {"nombre_apellido_paciente", "telefono_paciente", "equipo_origen",
                               "motivo_solicitud"}
                        [] OTHER -> {})
            [] r.quien = Q_DIS ->
                {"nombre_fantasia", "razon_social", "cuit", "contacto_nombre", "contacto_telefono",
                 "comercial_syemed", "contacto_tecnico", "motivo_solicitud"}
            [] r.quien = Q_INS ->
                {"nombre_fantasia", "razon_social", "contacto_nombre", "contacto_telefono",
                 "comercial_syemed", "contacto_tecnico", "motivo_solicitud"}
            [] r.quien = Q_PAC ->
                {"nombre_apellido_paciente", "telefono_paciente", "equipo_origen", "motivo_solicitud"}
            [] OTHER -> {})

CamposDeMotivo(r) ==
    CASE r.motivo = M_CA -> {"motivo_cambio_alquiler"}
      [] r.motivo = M_FC -> {"detalle_fallo"}
      [] r.motivo \in {M_ST, M_PV} -> {FALLAS_O_DETALLE}
      [] OTHER -> {}

Campos(r) == CamposDeRama(r) \cup CamposDeMotivo(r) \cup CamposEquipo

\* a populated value of key k, as the widget of that key delivers it
Muestra(k) ==
    CASE k = "email" -> "user@dominio.com"
      [] k = "area_solicitante" -> "Comercial"
      [] k = "solicitante" -> "Ariel"
      [] k = "comercial_syemed" -> "Clara"
      [] k = "contacto_tecnico" -> "Sí"
      [] k = "equipo_origen" -> "Se lo entregaron"
      [] k \in {"cuit", "contacto_telefono", "telefono_paciente"} -> <<"3", "0">>
      [] k = "fallas_problemas" -> <<"No enciende">>
      [] OTHER -> <<"a", "b">>

EquipoCompleto ==
    [tipo_equipo |-> "CPAP", marca |-> "Philips", modelo |-> "Trilogy",
     numero_serie |-> <<"S", "1">>, en_garantia |-> FALSE]

Poblado(r) ==
    LET claves == (CamposDeRama(r) \cup {"motivo_solicitud", "equipos"})
                  \cup (CASE r.motivo = M_CA -> {"motivo_cambio_alquiler"}
                          [] r.motivo = M_FC -> {"detalle_fallo"}
                          [] r.motivo \in {M_ST, M_PV} -> {"fallas_problemas", "detalle_fallo"}
                          [] OTHER -> {})
    IN [k \in claves |->
            CASE k = "quien_completa" -> r.quien
              [] k = "equipo_corresponde_a" -> r.corresponde
              [] k = "motivo_solicitud" -> r.motivo
              [] k = "equipos" -> <<EquipoCompleto>>
              [] OTHER -> Muestra(k)]

Modos == {"vacio", "quitado", "placeholder", "espacios"}

Placeholder(k) ==
    CASE k = "solicitante" -> PH_SOLICITANTE
      [] k = "comercial_syemed" -> PH_COMERCIAL
      [] k = "tipo_equipo" -> PH_TIPO
      [] k = "marca" -> PH_MARCA
      [] k = "modelo" -> PH_MODELO
      [] OTHER -> ""

\* the free-text keys, where a user can type only blanks
EsTexto(k) == k \in ListKeys \ {"fallas_problemas", "equipos", "fotos_fallas", "archivos_urls"}

\* dictionary d with key k cleared in the given way
BorrarClave(d, k, modo) ==
    CASE modo = "quitado" -> Quitar(d, k)
      [] modo = "placeholder" /\ Placeholder(k) # "" -> Poner(d, k, Placeholder(k))
      [] modo = "espacios" /\ EsTexto(k) -> Poner(d, k, <<" ">>)
      [] OTHER -> Poner(d, k, Vacio(k))

BorrarCampo(d, campo, modo) ==
    CASE campo = FALLAS_O_DETALLE ->
            BorrarClave(BorrarClave(d, "fallas_problemas", modo), "detalle_fallo", modo)
      [] campo = "eq.tipo_equipo" ->
            Poner(d, "equipos", <<BorrarClave(d.equipos[1], "tipo_equipo", modo)>>)
      [] campo = "eq.marca" ->
            Poner(d, "equipos", <<BorrarClave(d.equipos[1], "marca", modo)>>)
      [] campo = "eq.modelo" ->
            Poner(d, "equipos", <<BorrarClave(d.equipos[1], "modelo", modo)>>)
      [] campo = "eq.numero_serie" ->
            Poner(d, "equipos", <<BorrarClave(d.equipos[1], "numero_serie", modo)>>)
      [] OTHER -> BorrarClave(d, campo, modo)

RECURSIVE BorrarCampos(_, _, _)
BorrarCampos(d, campos, modo) ==
    IF campos = {} THEN d
    ELSE LET c == CHOOSE x \in campos : TRUE
         IN BorrarCampos(BorrarCampo(d, c, modo), campos \ {c}, modo)

\* equipment rows and lists drawn as inputs
FilasEquipo ==
    {[tipo_equipo |-> t, marca |-> ma, modelo |-> mo, numero_serie |-> ns, en_garantia |-> FALSE] :
        t \in {"", PH_TIPO, "CPAP"}, ma \in {PH_MARCA, "Philips"},
        mo \in {PH_MODELO, "Trilogy"}, ns \in {<<>>, <<"S", "1">>}}

ListasEquipos == UNION {[1..n -> FilasEquipo] : n \in 0..MaxEquipos}

RamasDeEquipos == {[quien |-> Q_DIS, corresponde |-> "", motivo |-> M_BA],
                   [quien |-> Q_COL, corresponde |-> M_STOCK, motivo |-> M_STOCK]}

\* the clearings of branch r: at most MaxBorrados of its mandatory entries
Borrados(r) == {x \in SUBSET Campos(r) : Cardinality(x) <= MaxBorrados}

InitFunciones ==
    /\ arg = SinResultado /\ ret = SinResultado
    /\ FlujoInicial /\ entorno = [magic_disponible |-> TRUE, fallos |-> {}]

\* an input for validar_campos_obligatorios: a branch's dictionary with entries cleared
ElegirCampos ==
    /\ arg.fn = "ninguna"
    /\ \E r \in Ramas : \E c \in Borrados(r) : \E m \in Modos :
          arg' = [fn |-> "validar", data |-> BorrarCampos(Poblado(r), c, m),
                  rama |-> r, borrados |-> c, modo |-> m]
    /\ UNCHANGED <<ret, varsFlujo>>

\* an input for validar_campos_obligatorios: a populated dictionary with any equipment list
ElegirEquipos ==
    /\ arg.fn = "ninguna"
    /\ \E r \in RamasDeEquipos : \E l \in ListasEquipos :
          arg' = [fn |-> "validar", data |-> Poner(Poblado(r), "equipos", l),
                  rama |-> r, borrados |-> {}, modo |-> "equipos"]
    /\ UNCHANGED <<ret, varsFlujo>>

\* the call validar_campos_obligatorios(data)
LlamarValidar ==
    /\ arg.fn = "validar" /\ ret.fn = "ninguna"
    /\ ret' = [fn |-> "validar", res |-> validar_campos_obligatorios(arg.data)]
    /\ UNCHANGED <<arg, varsFlujo>>

\* equipment lists handed to insertar_solicitud on its own: rows of any type
FilasInsertar ==
    {[tipo_equipo |-> t, marca |-> "Philips", modelo |-> "Trilogy",
      numero_serie |-> <<"S", "1">>, en_garantia |-> FALSE] : t \in {"", PH_TIPO, "CPAP", "BPAP"}}

ListasInsertar == UNION {[1..n -> FilasInsertar] : n \in 0..MaxFilas}

\* lists of uploaded files (data['archivos_urls'])
ListasArchivos ==
    LET foto(i) == [tipo |-> "foto_video", equipo_num |-> i, nombre |-> <<"foto", "jpg">>,
                    url |-> "https://res.cloudinary.com/solicitudes_st/fotos", tamano |-> 2048]
        factura == [tipo |-> "factura", equipo_num |-> "todos", nombre |-> <<"factura", "pdf">>,
                    url |-> "https://res.cloudinary.com/solicitudes_st/facturas", tamano |-> 4096]
    IN {<<>>, <<foto(1)>>, <<foto(2), factura>>}

\* a database that already holds a request with one equipment row, and whose ost
\* sequence has a gap left by a rolled-back transaction
BDPrevia ==
    LET previa == Poblado([quien |-> Q_DIS, corresponde |-> "", motivo |-> M_ST]) IN
    [solicitudes |-> <<FilaSolicitud(previa, 1, "")>>,
     equipos |-> <<FilaEquipo(EquipoCompleto, 1, 2, 1, 1, FALSE)>>,
     archivos_adjuntos |-> <<>>,
     sec_solicitud |-> 1, sec_equipo |-> 2, sec_ost |-> 2]

\* an input for insertar_solicitud: data, the database, and the statement that fails (0: none)
ElegirInsertar ==
    /\ arg.fn = "ninguna"
    /\ \E m \in {M_ST, M_PV}, l \in ListasInsertar, a \in ListasArchivos,
          base \in {BDVacia, BDPrevia}, e \in BOOLEAN :
          LET d == Poner(Poner(Poblado([quien |-> Q_DIS, corresponde |-> "", motivo |-> m]),
                               "equipos", l), "archivos_urls", a)
          IN \E falla \in 0..Len(Sentencias(d)) :
                arg' = [fn |-> "insertar", data |-> d, base |-> base, falla |-> falla,
                        factura_url_existe |-> e]
    /\ UNCHANGED <<ret, varsFlujo>>

\* the call insertar_solicitud(data)
LlamarInsertar ==
    /\ arg.fn = "insertar" /\ ret.fn = "ninguna"
    /\ ret' = [fn |-> "insertar",
               res |-> insertar_solicitud(arg.data, arg.base, arg.falla, arg.factura_url_existe)]
    /\ UNCHANGED <<arg, varsFlujo>>

\* {} : the dictionary without keys
DiccionarioVacio == <<>>

\* the key is left out of the dictionary
AUSENTE == "(ausente)"

\* d with key k set to v, unless v says that the key is left out
PonerSi(d, k, v) == IF v = AUSENTE THEN d ELSE Poner(d, k, v)

\* the values the entries read by generar_codigo_categoria may hold: the options of the
\* form's select boxes, a text no select box offers, and the key left out
MotivosCodigo == Motivos \cup {AUSENTE, "Otro motivo"}
QuienesCodigo == QuienCompleta \cup {AUSENTE, "Otro"}
PropiedadesCodigo == {AUSENTE, "", "Alquilado", "Propio"}
OrigenesCodigo == {AUSENTE, "", "Se lo entregaron", "Lo compró de manera directa"}
GarantiasCodigo == {AUSENTE, "", "Sí", "No", "No lo sé"}

\* equipment rows as generar_codigo_categoria reads them: flagged in warranty, not
\* flagged, or without the key
FilasCodigo == {[tipo_equipo |-> "CPAP", en_garantia |-> TRUE],
                [tipo_equipo |-> "CPAP", en_garantia |-> FALSE],
                [tipo_equipo |-> "CPAP"]}

ListasCodigo == UNION {[1..n -> FilasCodigo] : n \in 0..MaxEquipos}

\* an input for generar_codigo_categoria: any combination of the entries it reads
ElegirCodigo ==
    /\ arg.fn = "ninguna"
    /\ \E motivo \in MotivosCodigo, quien \in QuienesCodigo, propiedad \in PropiedadesCodigo,
          origen \in OrigenesCodigo, garantia \in GarantiasCodigo, con_equipos \in BOOLEAN :
          \E l \in (IF con_equipos THEN ListasCodigo ELSE {<<>>}) :
             LET d0 == IF con_equipos THEN [equipos |-> l] ELSE DiccionarioVacio
                 d == PonerSi(PonerSi(PonerSi(PonerSi(PonerSi(d0,
                          "motivo_solicitud", motivo), "quien_completa", quien),
                          "equipo_propiedad", propiedad), "equipo_origen", origen),
                          "en_garantia", garantia)
             IN arg' = [fn |-> "codigo", data |-> d]
    /\ UNCHANGED <<ret, varsFlujo>>

\* the call generar_codigo_categoria(data)
LlamarCodigo ==
    /\ arg.fn = "codigo" /\ ret.fn = "ninguna"
    /\ ret' = [fn |-> "codigo", res |-> generar_codigo_categoria(arg.data)]
    /\ UNCHANGED <<arg, varsFlujo>>

\* uploaded files: names (the parts between the dots), sizes in bytes, content types
NombresArchivo == {<<"factura", "pdf">>, <<"foto", "JPG">>, <<"video", "mp4">>,
                   <<"notas", "txt">>, <<"invoice", "pdf", "exe">>, <<"foto", "php", "jpg">>,
                   <<"virus", "exe">>, <<"script", "js">>, <<"datos", "csv">>}

TamanosArchivo == {2 * MB, 5 * MB, 5 * MB + 1, 10 * MB, 10 * MB + 1, 50 * MB, 50 * MB + 1,
                   60 * MB}

MimesArchivo == {"image/jpeg", "application/pdf", "video/mp4", "text/plain",
                 "application/x-dosexec"}

\* an input for validar_archivo_completo: a file, and whether python-magic was imported
ElegirArchivo ==
    /\ arg.fn = "ninguna"
    /\ \E name \in NombresArchivo, size \in TamanosArchivo, mime \in MimesArchivo,
          magic_disponible \in BOOLEAN :
          arg' = [fn |-> "archivo", archivo |-> [name |-> name, size |-> size, mime |-> mime],
                  magic_disponible |-> magic_disponible]
    /\ UNCHANGED <<ret, varsFlujo>>

\* the call validar_archivo_completo(archivo)
LlamarValidarArchivo ==
    /\ arg.fn = "archivo" /\ ret.fn = "ninguna"
    /\ ret' = [fn |-> "archivo",
               res |-> validar_archivo_completo(arg.archivo, arg.magic_disponible)]
    /\ UNCHANGED <<arg, varsFlujo>>

\* texts handed to sanitizar_texto: a letter, a blank, a tab and a deleted character
AlfabetoTexto == {"a", " ", "\t", "<"}

Textos == UNION {[1..n -> AlfabetoTexto] : n \in 0..MaxTexto}

\* an input for sanitizar_texto: a text and max_length
ElegirTexto ==
    /\ arg.fn = "ninguna"
    /\ \E texto \in Textos, max_length \in 0..(MaxTexto + 1) :
          arg' = [fn |-> "texto", texto |-> texto, max_length |-> max_length]
    /\ UNCHANGED <<ret, varsFlujo>>

\* the call sanitizar_texto(texto, max_length), and the call on its result
LlamarSanitizarTexto ==
    /\ arg.fn = "texto" /\ ret.fn = "ninguna"
    /\ LET res == sanitizar_texto(arg.texto, arg.max_length)
       IN ret' = [fn |-> "texto", res |-> res, otra_vez |-> sanitizar_texto(res, arg.max_length)]
    /\ UNCHANGED <<arg, varsFlujo>>

\* the session states the gate may find: a new session, one with an accepted
\* submission and a suspicious event on record, and one whose window is full
SesionesSeguridad ==
    {[form_key |-> 0],
     [form_key |-> 0, user_id |-> 1, rate_limit |-> <<1>>, intentos_sospechosos |-> 1],
     [form_key |-> 0, user_id |-> 1, rate_limit |-> <<1, 2, 3, 4, 5>>]}

\* the dictionaries handed to the gate: a valid one, one whose address the sanitizer
\* rejects, and one with a photo whose name has two extensions
DatosSeguridad ==
    LET d == Poblado([quien |-> Q_DIS, corresponde |-> "", motivo |-> M_ST]) IN
    {d,
     Poner(d, "email", EMAIL_UTF8),
     Poner(d, "equipos",
           <<Poner(EquipoCompleto, "fotos_fallas",
                   <<[name |-> <<"foto", "php", "jpg">>, size |-> 2048, mime |-> "image/jpeg"]>>)>>)}

\* what the hidden field may hold: nothing, blanks only, a text, a text after a blank
HoneypotsSeguridad == {<<>>, <<" ">>, <<" ", "\t">>, <<"b", "o", "t">>, <<" ", "x">>}

\* an input for aplicar_seguridad_formulario, called at minute 10
ElegirSeguridad ==
    /\ arg.fn = "ninguna"
    /\ \E ss \in SesionesSeguridad, d \in DatosSeguridad, honeypot \in HoneypotsSeguridad :
          arg' = [fn |-> "seguridad", ss |-> ss, data |-> d, honeypot |-> honeypot, ahora |-> 10]
    /\ UNCHANGED <<ret, varsFlujo>>

\* the call aplicar_seguridad_formulario(data, None, data.get('facturas'))
LlamarSeguridad ==
    /\ arg.fn = "seguridad" /\ ret.fn = "ninguna"
    /\ ret' = [fn |-> "seguridad",
               res |-> aplicar_seguridad_formulario(arg.ss, arg.data, arg.honeypot, arg.ahora,
                                                    entorno.magic_disponible)]
    /\ UNCHANGED <<arg, varsFlujo>>

NextFunciones ==
    \/ ElegirCampos
    \/ ElegirEquipos
    \/ LlamarValidar
    \/ ElegirInsertar
    \/ LlamarInsertar
    \/ ElegirCodigo
    \/ LlamarCodigo
    \/ ElegirArchivo
    \/ LlamarValidarArchivo
    \/ ElegirTexto
    \/ LlamarSanitizarTexto
    \/ ElegirSeguridad
    \/ LlamarSeguridad

SpecFunciones == InitFunciones /\ [][NextFunciones]_vars

-----------------------------------------------------------------------------
(* The submission flow: main, the security gate, procesar_formulario and   *)
(* mostrar_resumen_y_descarga.  A click on "Enviar Solicitud" is one       *)
(* submit event; the widgets' values are the inputs of the click.          *)

\* the end points of random.randint(1, 5)
NumerosCaptcha == {1, 5}

Foto == [name |-> <<"foto", "jpg">>, size |-> 2048, mime |-> "image/jpeg"]
FotoDobleExtension == [name |-> <<"foto", "php", "jpg">>, size |-> 2048, mime |-> "image/jpeg"]
Factura == [name |-> <<"factura", "pdf">>, size |-> 4096, mime |-> "application/pdf"]

R_DIS_ST == [quien |-> Q_DIS, corresponde |-> "", motivo |-> M_ST]
R_PAC_PV == [quien |-> Q_PAC, corresponde |-> "", motivo |-> M_PV]
R_COL_BA == [quien |-> Q_COL, corresponde |-> Q_INS, motivo |-> M_BA]

\* an equipment row as mostrar_seccion_equipos builds it
Equipo(marca, numero_serie, fotos) ==
    [tipo_equipo |-> "CPAP", marca |-> marca, modelo |-> "Trilogy",
     numero_serie |-> numero_serie, en_garantia |-> FALSE, fotos_fallas |-> fotos]

EquipoSinElegir ==
    [tipo_equipo |-> PH_TIPO, marca |-> PH_MARCA, modelo |-> PH_MODELO,
     numero_serie |-> <<>>, en_garantia |-> FALSE, fotos_fallas |-> <<>>]

\* data as main builds it from the widgets: 'email' holds the normalised address when
\* the typed one is valid; an invoice can be attached on the path 'bought directly, in
\* warranty' only (lines 2017-2036 and 2142-2160), and without it the form is on the
\* path 'rented' (an organisation) or 'handed over' (a patient); the rows take their
\* en_garantia from the form-level answer (lines 2967-2978)
Formulario(r, email, equipos, con_factura) ==
    LET v == validar_email_formato(email)
        paciente == r.quien = Q_PAC \/ r.corresponde = Q_PAC
        organizacion == r.quien \in {Q_DIS, Q_INS} \/ r.corresponde \in {Q_DIS, Q_INS}
        flujo == CASE con_factura /\ paciente ->
                        [equipo_origen |-> "Lo compró de manera directa", en_garantia |-> "Sí",
                         factura_garantia |-> Factura]
                   [] con_factura /\ organizacion ->
                        [equipo_propiedad |-> "Propio", compra_directa |-> "Sí",
                         en_garantia |-> "Sí", factura_garantia |-> Factura]
                   [] ~con_factura /\ paciente -> [equipo_origen |-> "Se lo entregaron"]
                   [] ~con_factura /\ organizacion -> [equipo_propiedad |-> "Alquilado"]
                   [] OTHER -> <<>>
        filas == [i \in 1..Len(equipos) |-> [equipos[i] EXCEPT !.en_garantia = con_factura]]
        d1 == Poner(Poner(Actualizar(Poblado(r), flujo), "equipos", filas), "email",
                    IF v.es_valido THEN v.normalizado ELSE email)
    IN [email_valido |-> v.es_valido, data |-> d1]

\* the forms a click may carry
Formularios ==
    { Formulario(R_DIS_ST, EMAIL_MAYUS,
                 <<EquipoSinElegir, Equipo("Philips", <<"S", "<", "1">>, <<>>)>>, TRUE),
      Formulario(R_COL_BA, EMAIL_OK,
                 <<Equipo("Philips", <<"S", "1">>, <<Foto>>), Equipo("Philips", <<"#">>, <<>>)>>, FALSE),
      Formulario(R_COL_BA, EMAIL_OK, <<Equipo(PH_MARCA, <<"S", "1">>, <<>>)>>, FALSE),
      Formulario(R_PAC_PV, EMAIL_OK, <<Equipo("Philips", <<"S", "1">>, <<>>)>>, FALSE),
      Formulario(R_PAC_PV, EMAIL_OK, <<Equipo("Philips", <<"S", "1">>, <<FotoDobleExtension>>)>>, FALSE),
      Formulario(R_PAC_PV, EMAIL_UTF8, <<Equipo("Philips", <<"S", "1">>, <<>>)>>, FALSE) }

\* what is typed in the captcha box, and in the hidden honeypot box
Respuestas == {<<>>, <<"x">>, <<"2">>, <<"6">>, <<"7">>, <<"1", "0">>}
Honeypots == {<<>>, <<"b", "o", "t">>}

ValorDigito(c) ==
    CASE c = "0" -> 0 [] c = "1" -> 1 [] c = "2" -> 2 [] c = "3" -> 3 [] c = "4" -> 4
      [] c = "5" -> 5 [] c = "6" -> 6 [] c = "7" -> 7 [] c = "8" -> 8 [] c = "9" -> 9

RECURSIVE Entero(_, _)
\* int(respuesta_usuario) of a text of digits, most significant first
Entero(s, acc) == IF s = <<>> THEN acc ELSE Entero(Tail(s), 10 * acc + ValorDigito(Head(s)))

\* verificar_captcha: int() raises on a text that is not a number, which gives False
verificar_captcha(ss, respuesta_usuario) ==
    LET t == Strip(respuesta_usuario) IN
    IF t = <<>> \/ \E i \in 1..Len(t) : t[i] \notin Digitos THEN FALSE
    ELSE Entero(t, 0) = ss.captcha_respuesta

\* mostrar_captcha: the value it returns
mostrar_captcha(ss, respuesta_usuario) ==
    IF respuesta_usuario # <<>> THEN verificar_captcha(ss, respuesta_usuario) ELSE FALSE

\* generar_captcha: the answer is stored only when the session holds none (the text of
\* the question, stored with it, is only displayed)
generar_captcha(ss, num1, num2) ==
    IF "captcha_respuesta" \in DOMAIN ss THEN ss
    ELSE Poner(ss, "captcha_respuesta", num1 + num2)

\* main: tiene_motivo
tiene_motivo(d) ==
    IF Get(d, "quien_completa") = Q_COL THEN Get(d, "equipo_corresponde_a") # ""
    ELSE Get(d, "motivo_solicitud") # ""

\* a submit button that only waits for the captcha
BotonSoloCaptcha(campos_validos, captcha_valido) == captcha_valido

\* st.button(..., disabled=not (campos_validos and captcha_valido)): can it be clicked
BotonHabilitado(campos_validos, captcha_valido) == campos_validos /\ captcha_valido

\* st.session_state.get('formulario_enviado', False)
FormularioEnviado(ss) == "formulario_enviado" \in DOMAIN ss /\ ss.formulario_enviado

Ev(ev, ok) == [ev |-> ev, ok |-> ok]

\* a procesar_formulario that stores the request before it uploads the attachments
OrdenInsertarPrimero ==
    <<"insertar", "subir_archivos", "generar_pdf", "subir_pdf", "actualizar_pdf_url",
      "enviar_email">>

\* the steps of procesar_formulario, in the order of its code
OrdenDePasos ==
    <<"subir_archivos", "insertar", "generar_pdf", "subir_pdf", "actualizar_pdf_url",
      "enviar_email">>

\* the steps of procesar_formulario, as a set
Pasos == {OrdenDePasos[k] : k \in 1..Len(OrdenDePasos)}

\* the outcomes a step that calls an external service may have in this deployment
Resultados(paso) == IF paso \in entorno.fallos THEN BOOLEAN ELSE {TRUE}

\* the step that follows paso; after the last one the run is over ("form")
Despues(paso) ==
    LET i == CHOOSE k \in 1..Len(OrdenDePasos) : OrdenDePasos[k] = paso
    IN IF i = Len(OrdenDePasos) THEN "form" ELSE OrdenDePasos[i + 1]

\* a filter that keeps the rows without a serial number
EquiposValidosSinSerie(d) ==
    SelectSeq(Get(d, "equipos"), LAMBDA eq : Get(eq, "tipo_equipo") # PH_TIPO)

\* procesar_formulario: equipos_validos
EquiposValidos(d) ==
    SelectSeq(Get(d, "equipos"),
              LAMBDA eq : Get(eq, "tipo_equipo") # PH_TIPO /\ ~Falsy(eq, "numero_serie"))

RECURSIVE FotosDeEquipos(_, _)
\* the photos procesar_formulario uploads, in order, each with the number of its row
FotosDeEquipos(equipos, i) ==
    IF i > Len(equipos) THEN <<>>
    ELSE [j \in 1..Len(Get(equipos[i], "fotos_fallas")) |->
             [tipo |-> "foto_video", equipo_num |-> i, archivo |-> equipos[i].fotos_fallas[j],
              carpeta |-> "solicitudes_st/fotos"]]
         \o FotosDeEquipos(equipos, i + 1)

\* every file procesar_formulario hands to subir_archivo_cloudinary, in order
ArchivosASubir(d) ==
    FotosDeEquipos(Get(d, "equipos"), 1)
    \o (IF "factura_garantia" \in DOMAIN d
        THEN <<[tipo |-> "factura", equipo_num |-> "todos", archivo |-> d.factura_garantia,
                carpeta |-> "solicitudes_st/facturas"]>>
        ELSE <<>>)

\* the secure_url Cloudinary answers with
Url(carpeta) == "https://res.cloudinary.com/" \o carpeta

RECURSIVE Subidos(_, _, _)
\* the uploads number k.. that succeed (those whose number is not in fallan)
Subidos(pendientes, k, fallan) ==
    IF k > Len(pendientes) THEN <<>>
    ELSE (IF k \in fallan THEN <<>> ELSE <<pendientes[k]>>) \o Subidos(pendientes, k + 1, fallan)

\* the entry of urls_archivos of one uploaded file
ArchivoInfo(p) ==
    [tipo |-> p.tipo, equipo_num |-> p.equipo_num, nombre |-> p.archivo.name,
     url |-> Url(p.carpeta), tamano |-> p.archivo.size]

EventoDeSubida(pendientes, fallan) ==
    [k \in 1..Len(pendientes) |->
        Ev(IF pendientes[k].tipo = "factura" THEN "subir_factura" ELSE "subir_foto", k \notin fallan)]

\* the first render that reaches mostrar_captcha: the question is drawn and stored
MostrarFormulario ==
    /\ pc = "form"
    /\ ~FormularioEnviado(session_state)
    /\ "captcha_respuesta" \notin DOMAIN session_state
    /\ \E num1 \in NumerosCaptcha, num2 \in NumerosCaptcha :
          session_state' = generar_captcha(session_state, num1, num2)
    /\ UNCHANGED <<varsFunciones, bd, cloudinary, correos, pc, loc, hist, reloj, entorno, aprobadas>>

\* a click on "Enviar Solicitud", espera minutes after the last one: main up to the
\* call of procesar_formulario.  The form, the captcha answer and the honeypot value
\* are those of the click.
Clic(formularios, respuestas, honeypots, esperas, max_reloj) ==
    /\ pc = "form"
    /\ ~FormularioEnviado(session_state)
    /\ "captcha_respuesta" \in DOMAIN session_state
    /\ \E espera \in esperas :
          /\ reloj + espera <= max_reloj
          /\ \E w \in formularios, respuesta_usuario \in respuestas, honeypot \in honeypots :
                LET v == validar_campos_obligatorios(w.data)
                    captcha_valido == mostrar_captcha(session_state, respuesta_usuario)
                    g == aplicar_seguridad_formulario(session_state, w.data, honeypot,
                                                      reloj + espera, entorno.magic_disponible)
                IN /\ tiene_motivo(w.data) /\ w.email_valido
                   /\ BotonHabilitado(v.es_valido, captcha_valido)
                   /\ session_state' = g.ss
                   /\ hist' = <<Ev("validar", v.es_valido), Ev("captcha", captcha_valido),
                                Ev("gate", g.aprobado)>>
                               \o (IF g.aprobado THEN <<Ev("procesar", TRUE)>> ELSE <<>>)
                   /\ aprobadas' = IF g.aprobado THEN Append(aprobadas, reloj + espera)
                                   ELSE aprobadas
                   /\ IF g.aprobado
                      THEN pc' = OrdenDePasos[1] /\ loc' = [LocVacio EXCEPT !.data = g.data]
                      ELSE pc' = "form" /\ loc' = LocVacio
          /\ reloj' = reloj + espera
    /\ UNCHANGED <<varsFunciones, bd, cloudinary, correos, entorno>>

\* a submit event, one minute after the last one
Enviar == Clic(Formularios, Respuestas, Honeypots, {1}, MaxReloj)

\* procesar_formulario, lines 3162-3208: the rows are filtered and the files uploaded
SubirArchivos ==
    /\ pc = "subir_archivos"
    /\ LET d1 == Poner(loc.data, "equipos", EquiposValidos(loc.data))
           pendientes == ArchivosASubir(d1)
       IN \E fallan \in (IF "subir_archivos" \in entorno.fallos
                          THEN SUBSET (1..Len(pendientes)) ELSE {{}}) :
             LET subidos == Subidos(pendientes, 1, fallan)
                 urls_archivos == [k \in 1..Len(subidos) |-> ArchivoInfo(subidos[k])]
                 facturas == SelectSeq(urls_archivos, LAMBDA a : a.tipo = "factura")
                 factura_url_global == IF facturas = <<>> THEN "" ELSE facturas[1].url
                 equipos == [i \in 1..Len(d1.equipos) |->
                                Poner(d1.equipos[i], "factura_url", factura_url_global)]
             IN /\ cloudinary' = cloudinary \o
                       [k \in 1..Len(subidos) |->
                           [carpeta |-> subidos[k].carpeta, nombre |-> subidos[k].archivo.name,
                            archivo |-> subidos[k].archivo, en |-> reloj]]
                /\ loc' = [loc EXCEPT !.data =
                              Poner(Poner(d1, "equipos", equipos), "archivos_urls", urls_archivos)]
                /\ hist' = hist \o EventoDeSubida(pendientes, fallan)
    /\ pc' = Despues("subir_archivos")
    /\ UNCHANGED <<varsFunciones, session_state, bd, correos, reloj, entorno, aprobadas>>

\* the statement of insertar_solicitud that raises in this call (0: none)
SentenciasQueFallan(d) ==
    IF "insertar" \in entorno.fallos THEN 0..Len(Sentencias(d)) ELSE {0}

\* a procesar_formulario without the return that follows a failed insert
InsertarSinReturn ==
    /\ pc = "insertar"
    /\ \E falla \in SentenciasQueFallan(loc.data), factura_url_existe \in BOOLEAN :
          LET r == insertar_solicitud(loc.data, bd, falla, factura_url_existe)
          IN /\ bd' = r.bd
             /\ hist' = Append(hist, Ev("insertar", r.exito))
             /\ session_state' = Poner(Poner(session_state, "formulario_enviado", TRUE),
                                       "solicitud_id", r.solicitud_id)
             /\ loc' = [loc EXCEPT !.solicitud_id = r.solicitud_id,
                                   !.equipos_osts = r.equipos_osts]
             /\ pc' = Despues("insertar")
    /\ UNCHANGED <<varsFunciones, cloudinary, correos, reloj, entorno, aprobadas>>

\* procesar_formulario, lines 3210-3220: the call of insertar_solicitud and what follows it
Insertar ==
    /\ pc = "insertar"
    /\ \E falla \in SentenciasQueFallan(loc.data), factura_url_existe \in BOOLEAN :
          LET r == insertar_solicitud(loc.data, bd, falla, factura_url_existe)
          IN /\ bd' = r.bd
             /\ hist' = Append(hist, Ev("insertar", r.exito))
             /\ IF ~r.exito
                THEN /\ pc' = "form"
                     /\ loc' = LocVacio
                     /\ UNCHANGED session_state
                ELSE /\ session_state' = Poner(Poner(session_state, "formulario_enviado", TRUE),
                                               "solicitud_id", r.solicitud_id)
                     /\ loc' = [loc EXCEPT !.solicitud_id = r.solicitud_id,
                                           !.equipos_osts = r.equipos_osts]
                     /\ pc' = Despues("insertar")
    /\ UNCHANGED <<varsFunciones, cloudinary, correos, reloj, entorno, aprobadas>>

\* lines 3230-3236: generar_pdf_solicitud; an exception ends the run
GenerarPDF ==
    /\ pc = "generar_pdf"
    /\ \E ok \in Resultados("generar_pdf") :
          /\ hist' = Append(hist, Ev("generar_pdf", ok))
          /\ IF ok THEN /\ pc' = Despues("generar_pdf")
                        /\ loc' = [loc EXCEPT !.pdf = generar_pdf_solicitud(
                                        loc.data, loc.solicitud_id, loc.equipos_osts)]
                   ELSE pc' = "form" /\ loc' = LocVacio
    /\ UNCHANGED <<varsFunciones, session_state, bd, cloudinary, correos, reloj, entorno, aprobadas>>

\* st.session_state['pdf_bytes'] = pdf_bytes; st.session_state['pdf_filename'] = pdf_filename
ConPdf(ss) == Poner(Poner(ss, "pdf_bytes", "pdf"), "pdf_filename", "solicitud_ST.pdf")

\* a PDF upload whose failure ends the run
SubirPDFSinSeguir ==
    /\ pc = "subir_pdf"
    /\ \E ok \in Resultados("subir_pdf") :
          /\ hist' = Append(hist, Ev("subir_pdf", ok))
          /\ IF ok
             THEN /\ cloudinary' = Append(cloudinary, [carpeta |-> "solicitudes_st/pdfs",
                                                       nombre |-> <<"solicitud_ST", "pdf">>,
                                                       en |-> reloj])
                  /\ pc' = Despues("subir_pdf")
                  /\ UNCHANGED <<session_state, loc>>
             ELSE /\ pc' = "form"
                  /\ loc' = LocVacio
                  /\ UNCHANGED <<cloudinary, session_state>>
    /\ UNCHANGED <<varsFunciones, bd, correos, reloj, entorno, aprobadas>>

\* lines 3239-3249 and 3269-3280: subir_pdf_bytes_cloudinary; a failure is only warned about
SubirPDF ==
    /\ pc = "subir_pdf"
    /\ \E ok \in Resultados("subir_pdf") :
          /\ hist' = Append(hist, Ev("subir_pdf", ok))
          /\ IF ok
             THEN /\ cloudinary' = Append(cloudinary, [carpeta |-> "solicitudes_st/pdfs",
                                                       nombre |-> <<"solicitud_ST", "pdf">>,
                                                       en |-> reloj])
                  /\ pc' = Despues("subir_pdf")
                  /\ UNCHANGED session_state
             ELSE /\ pc' = Despues("actualizar_pdf_url")
                  /\ session_state' = ConPdf(session_state)
                  /\ UNCHANGED cloudinary
    /\ UNCHANGED <<varsFunciones, bd, correos, loc, reloj, entorno, aprobadas>>

\* an UPDATE without its WHERE clause
ActualizarFilaSinWhere(solicitudes, id, pdf_url) ==
    [i \in 1..Len(solicitudes) |-> [solicitudes[i] EXCEPT !.pdf_url = pdf_url]]

\* UPDATE solicitudes SET pdf_url = %s WHERE id = %s
ActualizarFila(solicitudes, id, pdf_url) ==
    [i \in 1..Len(solicitudes) |->
        IF solicitudes[i].id = id THEN [solicitudes[i] EXCEPT !.pdf_url = pdf_url]
        ELSE solicitudes[i]]

\* lines 3250-3268 and 3279-3280: the UPDATE in a transaction of its own
ActualizarPdfUrl ==
    /\ pc = "actualizar_pdf_url"
    /\ \E ok \in Resultados("actualizar_pdf_url") :
          /\ hist' = Append(hist, Ev("actualizar_pdf_url", ok))
          /\ bd' = IF ok
                   THEN [bd EXCEPT !.solicitudes =
                            ActualizarFila(@, loc.solicitud_id, Url("solicitudes_st/pdfs"))]
                   ELSE bd
    /\ session_state' = ConPdf(session_state)
    /\ pc' = Despues("actualizar_pdf_url")
    /\ UNCHANGED <<varsFunciones, cloudinary, correos, loc, reloj, entorno, aprobadas>>

\* lines 3283-3302: enviar_email_con_pdf, then st.rerun()
EnviarEmail ==
    /\ pc = "enviar_email"
    /\ \E ok \in Resultados("enviar_email") :
          /\ hist' = Append(hist, Ev("enviar_email", ok))
          /\ correos' = IF ok
                        THEN Append(correos, [destinatario |-> Get(loc.data, "email"),
                                              solicitud_id |-> loc.solicitud_id,
                                              categoria |-> generar_codigo_categoria(loc.data),
                                              equipos_osts |-> loc.equipos_osts])
                        ELSE correos
    /\ pc' = Despues("enviar_email")
    /\ loc' = LocVacio
    /\ UNCHANGED <<varsFunciones, session_state, bd, cloudinary, reloj, entorno, aprobadas>>

\* a "Crear Nueva Solicitud" that clears the session and leaves form_key as it is
NuevaSolicitudSinAvanzar ==
    /\ pc = "form"
    /\ FormularioEnviado(session_state)
    /\ session_state' = [form_key |-> session_state.form_key]
    /\ hist' = <<>>
    /\ UNCHANGED <<varsFunciones, bd, cloudinary, correos, pc, loc, reloj, entorno, aprobadas>>

\* mostrar_resumen_y_descarga: the button "Crear Nueva Solicitud"
NuevaSolicitud ==
    /\ pc = "form"
    /\ FormularioEnviado(session_state)
    /\ session_state' = [form_key |-> session_state.form_key + 1]
    /\ hist' = <<>>
    /\ UNCHANGED <<varsFunciones, bd, cloudinary, correos, pc, loc, reloj, entorno, aprobadas>>

Init ==
    /\ arg = SinResultado /\ ret = SinResultado
    /\ FlujoInicial /\ entorno \in [magic_disponible : BOOLEAN, fallos : {Pasos}]

Next ==
    \/ MostrarFormulario
    \/ Enviar
    \/ SubirArchivos
    \/ Insertar
    \/ GenerarPDF
    \/ SubirPDF
    \/ ActualizarPdfUrl
    \/ EnviarEmail
    \/ NuevaSolicitud

Spec == Init /\ [][Next]_vars

-----------------------------------------------------------------------------
(* A browser session that lasts more than an hour: the same handlers, with  *)
(* submit events ten minutes apart, in a deployment where only the         *)
(* database may fail.                                                      *)

MaxMinutos == 70

\* the minutes between two submit events
EsperasSesion == {10}

\* the forms a click of the session may carry: a valid one, and one with a photo
\* whose name has two extensions
FormulariosSesion ==
    { Formulario(R_PAC_PV, EMAIL_OK, <<Equipo("Philips", <<"S", "1">>, <<>>)>>, FALSE),
      Formulario(R_PAC_PV, EMAIL_OK, <<Equipo("Philips", <<"S", "1">>, <<FotoDobleExtension>>)>>, FALSE) }

InitSesion ==
    /\ arg = SinResultado /\ ret = SinResultado
    /\ FlujoInicial /\ entorno = [magic_disponible |-> TRUE, fallos |-> {"insertar"}]

\* a submit event of the session
EnviarEnSesion == Clic(FormulariosSesion, Respuestas, Honeypots, EsperasSesion, MaxMinutos)

NextSesion ==
    \/ MostrarFormulario
    \/ EnviarEnSesion
    \/ SubirArchivos
    \/ Insertar
    \/ GenerarPDF
    \/ SubirPDF
    \/ ActualizarPdfUrl
    \/ EnviarEmail
    \/ NuevaSolicitud

SpecSesion == InitSesion /\ [][NextSesion]_vars
-----------------------------------------------------------------------------
(* Every path of the form: the widgets of the two motive flows and of main, *)
(* and the dictionary main builds from them, submitted once in a deployment *)
(* where nothing fails.                                                     *)

MaxEnvios == 1

\* the short texts of the motive selectboxes
MOTIVO_AT == "Asistencia Técnica"
MOTIVO_FALLA_CRITICA == "Cambio por falla crítica"

normalizar_motivo_solicitud(motivo_texto) ==
    CASE motivo_texto = "" -> ""
      [] motivo_texto = MOTIVO_AT -> M_PV
      [] motivo_texto = MOTIVO_FALLA_CRITICA -> M_FC
      [] OTHER -> motivo_texto

\* the options of the motive selectbox of a rented equipment, and of the other paths
MotivosAlquilado == {"", M_ST, MOTIVO_AT, M_BA, M_CA, MOTIVO_FALLA_CRITICA}
MotivosPropio == {"", M_ST, MOTIVO_AT, MOTIVO_FALLA_CRITICA}

\* st.file_uploader with nothing chosen
SinArchivo == [name |-> <<>>, size |-> 0, mime |-> ""]

\* an invoice whose name the uploader takes (it ends in .pdf) and the scan refuses
FacturaDobleExtension ==
    [name |-> <<"factura", "exe", "pdf">>, size |-> 4096, mime |-> "application/pdf"]

\* the state of the widgets of the motive flows and of the details section
Widgets ==
    [propiedad : {"", "Alquilado", "Propio"}, compra : {"", "Sí", "No"},
     garantia : {"", "Sí", "No", "No lo sé"},
     origen : {"", "Se lo entregaron", "Lo compró de manera directa"},
     motivo : MotivosAlquilado, factura : {SinArchivo, Factura, FacturaDobleExtension},
     detalle : {<<"a", "b">>, <<"<">>}, serie : {<<"S", "1">>, <<"#">>}]

\* the motive selectbox the organisation flow shows offers w.motivo
MotivoOfrecidoOrganizacion(w) ==
    CASE w.propiedad = "Alquilado" -> TRUE
      [] w.propiedad = "Propio" /\ w.compra = "Sí" /\ w.garantia # "" -> w.motivo \in MotivosPropio
      [] w.propiedad = "Propio" /\ w.compra = "No" -> w.motivo \in MotivosPropio
      [] OTHER -> w.motivo = ""

\* the motive selectbox the patient flow shows offers w.motivo
MotivoOfrecidoPaciente(w) ==
    CASE w.origen = "Se lo entregaron" -> w.motivo \in MotivosPropio
      [] w.origen = "Lo compró de manera directa" /\ w.garantia # "" -> w.motivo \in MotivosPropio
      [] OTHER -> w.motivo = ""

\* the dictionary the flow returns; a key whose value is None is left out
mostrar_flujo_motivo_solicitud_distribuidor_institucion(w) ==
    LET propio == w.propiedad = "Propio"
        directa == propio /\ w.compra = "Sí"
        d0 == [equipo_propiedad |-> w.propiedad,
               motivo_solicitud |-> normalizar_motivo_solicitud(w.motivo),
               motivo_cambio_alquiler |->
                   IF w.propiedad = "Alquilado" /\ w.motivo = M_CA THEN <<"a", "b">> ELSE <<>>]
        d1 == IF propio THEN Poner(d0, "compra_directa", w.compra) ELSE d0
        d2 == IF directa THEN Poner(d1, "en_garantia", w.garantia) ELSE d1
    IN IF directa /\ w.garantia = "Sí" /\ w.factura # SinArchivo
       THEN Poner(d2, "factura_garantia", w.factura) ELSE d2

mostrar_flujo_motivo_solicitud_paciente(w) ==
    LET directa == w.origen = "Lo compró de manera directa"
        d0 == [equipo_origen |-> w.origen,
               motivo_solicitud |-> normalizar_motivo_solicitud(w.motivo)]
        d1 == IF directa THEN Poner(d0, "en_garantia", w.garantia) ELSE d0
    IN IF directa /\ w.garantia = "Sí" /\ w.factura # SinArchivo
       THEN Poner(d1, "factura_garantia", w.factura) ELSE d1

\* the keys a section of main sets before it calls the motive flow
Seccion(quien, corresponde) ==
    [k \in CamposDeRama([quien |-> quien, corresponde |-> corresponde, motivo |-> ""])
           \ {"motivo_solicitud", "equipo_origen"} |->
        CASE k = "quien_completa" -> quien
          [] k = "equipo_corresponde_a" -> corresponde
          [] OTHER -> Muestra(k)]

\* main, lines 2290-2560: the dictionary of a form filled in completely along the path
\* the widgets w select; one equipment row, with the serial number typed
DatosDeMain(quien, corresponde, w) ==
    LET cliente == IF quien = Q_COL THEN corresponde ELSE quien
        d1 == CASE cliente \in {Q_DIS, Q_INS} ->
                      Actualizar(Seccion(quien, corresponde),
                                 mostrar_flujo_motivo_solicitud_distribuidor_institucion(w))
                [] cliente = Q_PAC ->
                      Actualizar(Seccion(quien, corresponde),
                                 mostrar_flujo_motivo_solicitud_paciente(w))
                [] OTHER -> Poner(Seccion(quien, corresponde), "motivo_solicitud", cliente)
        motivo == d1.motivo_solicitud
        d2 == IF motivo \in {M_ST, M_PV, M_FC}
              THEN Actualizar(d1, [fallas_problemas |-> IF motivo = M_FC THEN <<>>
                                                        ELSE <<"No enciende">>,
                                   detalle_fallo |-> w.detalle, diagnostico_paciente |-> <<>>])
              ELSE d1
    IN IF motivo = "" THEN d2
       ELSE Poner(d2, "equipos",
                  <<[Equipo("Philips", w.serie, <<>>)
                        EXCEPT !.en_garantia = (Get(d2, "en_garantia") = "Sí")]>>)

\* the widget states of a path: the motive is one the selectbox shown offers
Caminos ==
    {c \in [quien : QuienCompleta, corresponde : EquipoCorrespondeA \cup {""}, w : Widgets] :
        /\ (c.quien = Q_COL) = (c.corresponde # "")
        /\ LET cliente == IF c.quien = Q_COL THEN c.corresponde ELSE c.quien
           IN CASE cliente \in {Q_DIS, Q_INS} -> MotivoOfrecidoOrganizacion(c.w)
                [] cliente = Q_PAC -> MotivoOfrecidoPaciente(c.w)
                [] OTHER -> TRUE}

\* the forms of every path
FormulariosDeCaminos ==
    {[email_valido |-> TRUE, data |-> DatosDeMain(c.quien, c.corresponde, c.w)] : c \in Caminos}

InitCaminos ==
    /\ arg = SinResultado /\ ret = SinResultado
    /\ FlujoInicial /\ entorno = [magic_disponible |-> TRUE, fallos |-> {}]

\* the submit event of a path
EnviarCamino == Clic(FormulariosDeCaminos, {<<"2">>, <<"6">>, <<"1", "0">>}, {<<>>}, {1}, MaxEnvios)

NextCaminos ==
    \/ MostrarFormulario
    \/ EnviarCamino
    \/ SubirArchivos
    \/ Insertar
    \/ GenerarPDF
    \/ SubirPDF
    \/ ActualizarPdfUrl
    \/ EnviarEmail
    \/ NuevaSolicitud

SpecCaminos == InitCaminos /\ [][NextCaminos]_vars

-----------------------------------------------------------------------------
(* The decision table of section 4.1, as data: the mandatory entries of the *)
(* branch a dictionary falls in, in declaration order.                      *)

Decl(k, ph, msg) == [k |-> k, ph |-> ph, msg |-> msg]

DeclaradosDeRama(d) ==
    LET q == Get(d, "quien_completa")
        c == Get(d, "equipo_corresponde_a")
    IN CASE q = Q_COL ->
              <<Decl("area_solicitante", "", "Área Solicitante es obligatorio"),
                Decl("solicitante", PH_SOLICITANTE, "Solicitante es obligatorio"),
                Decl("equipo_corresponde_a", "", "'El equipo corresponde a' es obligatorio")>>
              \o (CASE c = Q_DIS ->
                        <<Decl("nombre_fantasia", "", "Nombre de Fantasía (Distribuidor) es obligatorio"),
                          Decl("razon_social", "", "Razón Social (Distribuidor) es obligatorio"),
                          Decl("cuit", "", "CUIT (Distribuidor) es obligatorio"),
                          Decl("contacto_nombre", "", "Nombre de contacto (Distribuidor) es obligatorio"),
                          Decl("contacto_telefono", "", "Teléfono de contacto (Distribuidor) es obligatorio"),
                          Decl("contacto_tecnico", "", "Debe indicar si quiere contacto técnico (Distribuidor)"),
                          Decl("motivo_solicitud", "", "Motivo de la solicitud (Distribuidor) es obligatorio")>>
                    [] c = Q_INS ->
                        <<Decl("nombre_fantasia", "", "Nombre del Hospital/Clínica (Institución) es obligatorio"),
                          Decl("razon_social", "", "Razón Social (Institución) es obligatorio"),
                          Decl("contacto_nombre", "", "Nombre de contacto (Institución) es obligatorio"),
                          Decl("contacto_telefono", "", "Teléfono de contacto (Institución) es obligatorio"),
                          Decl("contacto_tecnico", "", "Debe indicar si quiere contacto técnico (Institución)"),
                          Decl("motivo_solicitud", "", "Motivo de la solicitud (Institución) es obligatorio")>>
                    [] c = Q_PAC ->
                        <<Decl("nombre_apellido_paciente", "", "Nombre y Apellido (Paciente) es obligatorio"),
                          Decl("telefono_paciente", "", "Teléfono (Paciente) es obligatorio"),
                          Decl("equipo_origen", "", "Origen del equipo (Paciente) es obligatorio"),
                          Decl("motivo_solicitud", "", "Motivo de la solicitud (Paciente) es obligatorio")>>
                    [] OTHER -> <<>>)
         [] q = Q_DIS ->
              <<Decl("nombre_fantasia", "", "Nombre de Fantasía es obligatorio"),
                Decl("razon_social", "", "Razón Social es obligatorio"),
                Decl("cuit", "", "CUIT es obligatorio"),
                Decl("contacto_nombre", "", "Nombre de contacto es obligatorio"),
                Decl("contacto_telefono", "", "Teléfono de contacto es obligatorio"),
                Decl("comercial_syemed", PH_COMERCIAL, "Comercial de contacto en Syemed es obligatorio"),
                Decl("contacto_tecnico", "", "Debe indicar si quiere contacto técnico"),
                Decl("motivo_solicitud", "", "Motivo de la solicitud es obligatorio")>>
         [] q = Q_INS ->
              <<Decl("nombre_fantasia", "", "Nombre del Hospital/Clínica/Sanatorio es obligatorio"),
                Decl("razon_social", "", "Razón Social es obligatorio"),
                Decl("contacto_nombre", "", "Nombre de contacto es obligatorio"),
                Decl("contacto_telefono", "", "Teléfono de contacto es obligatorio"),
                Decl("comercial_syemed", PH_COMERCIAL, "Comercial de contacto en Syemed es obligatorio"),
                Decl("contacto_tecnico", "", "Debe indicar si quiere contacto técnico"),
                Decl("motivo_solicitud", "", "Motivo de la solicitud es obligatorio")>>
         [] q = Q_PAC ->
              <<Decl("nombre_apellido_paciente", "", "Nombre y Apellido es obligatorio"),
                Decl("telefono_paciente", "", "Teléfono de contacto es obligatorio"),
                Decl("equipo_origen", "", "Origen del equipo es obligatorio"),
                Decl("motivo_solicitud", "", "Motivo de la solicitud es obligatorio")>>
         [] OTHER -> <<>>

Declarados(d) ==
    <<Decl("email", "", "El correo electrónico es obligatorio"),
      Decl("quien_completa", "", "Debe indicar quién completa la solicitud")>>
    \o DeclaradosDeRama(d)

\* an entry is missing, empty or a placeholder option
Falta(d, k, ph) == k \notin DOMAIN d \/ d[k] = Vacio(k) \/ (ph # "" /\ d[k] = ph)

\* a free-text entry of a motive rule is missing; soloBlancos tells whether a
\* text made of blanks only counts as missing too
FaltaTexto(d, k, soloBlancos) ==
    \/ Falta(d, k, "")
    \/ soloBlancos /\ \A p \in 1..Len(d[k]) : EsEspacio(d[k][p])

EsperadosDeMotivo(d, soloBlancos) ==
    LET m == Get(d, "motivo_solicitud") IN
    CASE m = M_CA /\ FaltaTexto(d, "motivo_cambio_alquiler", soloBlancos) ->
            <<Err("Debe especificar el motivo del cambio de alquiler", 0)>>
      [] m = M_FC /\ FaltaTexto(d, "detalle_fallo", soloBlancos) ->
            <<Err("Debe describir la falla crítica que justifica el cambio", 0)>>
      [] m \in {M_ST, M_PV} /\ Falta(d, "fallas_problemas", "")
                            /\ FaltaTexto(d, "detalle_fallo", soloBlancos) ->
            <<Err("Debe seleccionar al menos una opción o especificar en 'Otros' el motivo de su solicitud", 0)>>
      [] OTHER -> <<>>

\* positions of the rows of data['equipos'] that have a real type
FilasReales(d) ==
    {j \in 1..Len(Get(d, "equipos")) :
        ~Falta(Get(d, "equipos")[j], "tipo_equipo", PH_TIPO)}

\* position in data['equipos'] of the j-th row with a real type
FilaReal(d, j) ==
    CHOOSE x \in FilasReales(d) : Cardinality({y \in FilasReales(d) : y <= x}) = j

MSG_MARCA == "La marca del equipo {i} es obligatoria"
MSG_MODELO == "El modelo del equipo {i} es obligatorio"
MSG_SERIE == "El número de serie del equipo {i} es obligatorio"
MSG_ALGUNO == "Debe registrar al menos un equipo"

RECURSIVE EsperadosDeFilas(_, _)
EsperadosDeFilas(d, j) ==
    IF j > Cardinality(FilasReales(d)) THEN <<>>
    ELSE LET eq == Get(d, "equipos")[FilaReal(d, j)] IN
            (IF Falta(eq, "marca", PH_MARCA) THEN <<Err(MSG_MARCA, j)>> ELSE <<>>)
         \o (IF Falta(eq, "modelo", PH_MODELO) THEN <<Err(MSG_MODELO, j)>> ELSE <<>>)
         \o (IF Falta(eq, "numero_serie", "") THEN <<Err(MSG_SERIE, j)>> ELSE <<>>)
         \o EsperadosDeFilas(d, j + 1)

RECURSIVE FiltrarDeclarados(_, _)
FiltrarDeclarados(d, decls) ==
    IF decls = <<>> THEN <<>>
    ELSE (IF Falta(d, Head(decls).k, Head(decls).ph) THEN <<Err(Head(decls).msg, 0)>> ELSE <<>>)
         \o FiltrarDeclarados(d, Tail(decls))

\* the error list section 4.1 prescribes for dictionary d
Esperados(d, soloBlancos) ==
       FiltrarDeclarados(d, Declarados(d))
    \o EsperadosDeMotivo(d, soloBlancos)
    \o (IF FilasReales(d) = {} THEN <<Err(MSG_ALGUNO, 0)>> ELSE EsperadosDeFilas(d, 1))

Validado == arg.fn = "validar" /\ ret.fn = "validar"

-----------------------------------------------------------------------------
(* Claims *)

\* the call of insertar_solicitud has been made and has returned
Insertado == arg.fn = "insertar" /\ ret.fn = "insertar"

\* the Equipment rows the call added to the database
FilasNuevas == SubSeq(ret.res.bd.equipos, Len(arg.base.equipos) + 1, Len(ret.res.bd.equipos))

\* C1: insertar_solicitud is atomic.  When any statement of the transaction
\* fails (the connection, the Request insert, the schema probe, any Equipment
\* insert, any Attachment insert or the commit), the three tables hold exactly
\* the rows they held before the call and the call returns (False, error
\* text, []).
C1_InsertarEsAtomica ==
    (Insertado /\ arg.falla # 0) =>
        /\ ret.res.exito = FALSE
        /\ ret.res.error # ""
        /\ ret.res.equipos_osts = <<>>
        /\ ret.res.bd.solicitudes = arg.base.solicitudes
        /\ ret.res.bd.equipos = arg.base.equipos
        /\ ret.res.bd.archivos_adjuntos = arg.base.archivos_adjuntos

\* C1 witness: on an empty database the second Equipment insert failed, and no
\* Request row and no Equipment row is stored.
C1_Testigo ==
    /\ Insertado
    /\ arg.base = BDVacia
    /\ arg.falla = 5
    /\ Sentencias(arg.data)[4].op = "insert_equipo"
    /\ Sentencias(arg.data)[5].op = "insert_equipo"
    /\ ret.res.exito = FALSE
    /\ ret.res.bd.solicitudes = <<>> /\ ret.res.bd.equipos = <<>>

\* C2: for every requester kind, equipment-belongs-to value and motive, the
\* fully populated dictionary of the branch validates as (True, []), and the
\* same dictionary with exactly one mandatory entry emptied or removed is
\* rejected with at least one error.
C2_PobladoValidaBorradoFalla ==
    (Validado /\ arg.modo \in {"vacio", "quitado"}) =>
        /\ (arg.borrados = {} =>
                ret.res.es_valido /\ ret.res.errores = <<>>)
        /\ (Cardinality(arg.borrados) = 1 =>
                ~ret.res.es_valido /\ Len(ret.res.errores) >= 1)

\* C2 witness: the critical-failure dictionary of a Colaborador whose equipment
\* belongs to an Institución, with only the failure description removed, was rejected.
C2_Testigo ==
    /\ Validado /\ arg.modo = "quitado"
    /\ arg.rama = [quien |-> Q_COL, corresponde |-> Q_INS, motivo |-> M_FC]
    /\ arg.borrados = {"detalle_fallo"}
    /\ ~ret.res.es_valido

\* C3 (as amended): the error list is exactly the list of the branch's
\* mandatory entries that are missing, empty or a placeholder, in declaration
\* order (common, branch, motive rule, equipment rules), where the free text of
\* a motive rule also counts as missing when it holds only blanks; the flag is
\* True exactly when the list is empty.
C3_ErroresEnOrdenSinCorte ==
    Validado =>
        /\ ret.res.errores = Esperados(arg.data, TRUE)
        /\ ret.res.es_valido = (ret.res.errores = <<>>)

\* C3 witness: two entries of one branch cleared at once gave at least two
\* errors, the one of the email first.
C3_Testigo ==
    /\ Validado
    /\ Cardinality(arg.borrados) = 2 /\ "email" \in arg.borrados
    /\ Len(ret.res.errores) >= 2
    /\ ret.res.errores[1] = Err("El correo electrónico es obligatorio", 0)

\* C3 as originally stated: an entry counts only when it is missing, empty or
\* a placeholder option.
C3_Original ==
    Validado =>
        /\ ret.res.errores = Esperados(arg.data, FALSE)
        /\ ret.res.es_valido = (ret.res.errores = <<>>)

\* C4: equipment-list rule.  With no row of real type the result holds the
\* single error 'at least one equipment' and no per-row error; otherwise it
\* holds, for the j-th row of real type, exactly one error per brand, model
\* and serial number that is missing (or placeholder), numbered j, and
\* nothing for the rows whose type is the placeholder.
C4_ReglaDeEquipos ==
    Validado =>
        LET errs == ret.res.errores
            n == Cardinality(FilasReales(arg.data))
            Cuenta(e) == Cardinality({p \in 1..Len(errs) : errs[p] = e})
            fila(j) == Get(arg.data, "equipos")[FilaReal(arg.data, j)]
            B(x) == IF x THEN 1 ELSE 0
        IN IF n = 0
           THEN /\ Cuenta(Err(MSG_ALGUNO, 0)) = 1
                /\ \A p \in 1..Len(errs) : errs[p].i = 0
           ELSE /\ Cuenta(Err(MSG_ALGUNO, 0)) = 0
                /\ \A p \in 1..Len(errs) : errs[p].i <= n
                /\ \A j \in 1..n :
                     /\ Cuenta(Err(MSG_MARCA, j)) = B(Falta(fila(j), "marca", PH_MARCA))
                     /\ Cuenta(Err(MSG_MODELO, j)) = B(Falta(fila(j), "modelo", PH_MODELO))
                     /\ Cuenta(Err(MSG_SERIE, j)) = B(Falta(fila(j), "numero_serie", ""))

\* C4 witness: a placeholder row followed by a real row without brand was
\* validated, and the brand error carries number 1.
C4_Testigo ==
    /\ Validado /\ arg.modo = "equipos"
    /\ Len(arg.data.equipos) = 2
    /\ arg.data.equipos[1].tipo_equipo = PH_TIPO
    /\ arg.data.equipos[2].tipo_equipo = "CPAP"
    /\ arg.data.equipos[2].marca = PH_MARCA
    /\ ret.res.errores = <<Err(MSG_MARCA, 1)>>

\* C5: a successful call of insertar_solicitud whose motive is not after-sales
\* assistance adds one Equipment row per entry of data['equipos'] with a real
\* type, every such row belongs to the new Request, and the returned tracking
\* numbers are those of the new rows in insertion order, pairwise distinct and
\* distinct from the ones already stored; with the after-sales motive it adds
\* no Equipment row and returns an empty list.
C5_UnaFilaPorEquipoReal ==
    (Insertado /\ ret.res.exito) =>
        LET equipos == Get(arg.data, "equipos")
            reales == {i \in 1..Len(equipos) : equipos[i].tipo_equipo \notin {"", PH_TIPO}}
            osts == ret.res.equipos_osts
        IN IF Get(arg.data, "motivo_solicitud") # M_PV
           THEN /\ Len(FilasNuevas) = Cardinality(reales)
                /\ Len(osts) = Len(FilasNuevas)
                /\ \A i \in 1..Len(FilasNuevas) :
                      /\ FilasNuevas[i].solicitud_id = ret.res.solicitud_id
                      /\ FilasNuevas[i].ost = osts[i]
                      /\ FilasNuevas[i].numero_equipo \in reales
                      /\ \A j \in 1..Len(arg.base.equipos) : arg.base.equipos[j].ost # osts[i]
                /\ \A i \in 1..Len(osts) : \A j \in 1..Len(osts) :
                      i < j => /\ osts[i] # osts[j]
                               /\ FilasNuevas[i].numero_equipo < FilasNuevas[j].numero_equipo
                /\ ret.res.solicitud_id \notin
                      {arg.base.solicitudes[j].id : j \in 1..Len(arg.base.solicitudes)}
           ELSE FilasNuevas = <<>> /\ osts = <<>>

\* C5 witness: a list of three entries, one of them with the placeholder type,
\* was stored as two Equipment rows next to the row of an earlier request.
C5_Testigo ==
    /\ Insertado /\ ret.res.exito
    /\ arg.base = BDPrevia
    /\ Len(arg.data.equipos) = 3
    /\ arg.data.equipos[2].tipo_equipo = PH_TIPO
    /\ Len(ret.res.equipos_osts) = 2
    /\ Len(ret.res.bd.equipos) = 3

\* the Request row a committed Equipment row belongs to
SolicitudDe(fila) ==
    CHOOSE sol \in {bd.solicitudes[j] : j \in 1..Len(bd.solicitudes)} : sol.id = fila.solicitud_id

\* C6: in every reachable state of the submission flow every committed
\* Equipment row has a type that is neither empty nor the placeholder, a brand
\* and a model that are not the placeholder, a non-empty serial number as
\* stored, and belongs to a Request whose motive is not after-sales assistance.
C6_EquiposCompletos ==
    \A i \in 1..Len(bd.equipos) :
        LET fila == bd.equipos[i] IN
        /\ fila.tipo_equipo \notin {"", PH_TIPO}
        /\ fila.marca # PH_MARCA
        /\ fila.modelo # PH_MODELO
        /\ fila.numero_serie # <<>>
        /\ \E j \in 1..Len(bd.solicitudes) : bd.solicitudes[j].id = fila.solicitud_id
        /\ SolicitudDe(fila).motivo_solicitud # M_PV

\* C6 witness: the form with a second row whose serial number the sanitizer
\* empties was committed with one Equipment row, and a request with the
\* after-sales motive was committed with none.
C6_Testigo ==
    /\ \E j \in 1..Len(bd.solicitudes) :
          /\ bd.solicitudes[j].quien_completa = Q_COL
          /\ Cardinality({i \in 1..Len(bd.equipos) :
                             bd.equipos[i].solicitud_id = bd.solicitudes[j].id}) = 1
    /\ \E j \in 1..Len(bd.solicitudes) : bd.solicitudes[j].motivo_solicitud = M_PV

\* the positions of hist that hold event ev
Donde(ev) == {i \in 1..Len(hist) : hist[i].ev = ev}

\* the steps of a run that touch object storage, the database or the mail server
Efectos == {"subir_foto", "subir_factura", "insertar", "generar_pdf", "subir_pdf",
            "actualizar_pdf_url", "enviar_email"}

\* a step in which the gate rejects a click leaves database, storage and mail as they were
GateRechazaSinEfectos ==
    (pc = "form" /\ hist' # hist /\ hist' # <<>> /\ ~hist'[3].ok) =>
        (bd' = bd /\ cloudinary' = cloudinary /\ correos' = correos /\ pc' = "form")

\* C7: procesar_formulario, and with it every upload and the insert, runs only
\* after validar_campos_obligatorios returned valid, the captcha answer was
\* correct and the security gate approved, in the same submit event; the gate
\* runs once per submit event, and when it rejects, the run stops with no
\* upload and no insert: database and storage are as before the click.
C7_ProcesarSoloTrasValidarCaptchaYGate ==
    /\ [](/\ Cardinality(Donde("gate")) <= 1
          /\ (hist # <<>> => Donde("validar") = {1} /\ Donde("captcha") = {2} /\ Donde("gate") = {3})
          /\ \A i \in 1..Len(hist) :
                hist[i].ev \in Efectos \cup {"procesar"} =>
                    /\ i > 3
                    /\ hist[1].ok /\ hist[2].ok /\ hist[3].ok
          /\ (pc # "form" => Donde("procesar") = {4})
          /\ (hist # <<>> /\ ~hist[3].ok => Len(hist) = 3 /\ pc = "form"))
    /\ [][GateRechazaSinEfectos]_vars

\* C7 witness: a click went through the three checks and procesar_formulario
\* is running, about to call insertar_solicitud.
C7_Testigo ==
    /\ pc = "insertar"
    /\ hist[1] = Ev("validar", TRUE) /\ hist[2] = Ev("captcha", TRUE)
    /\ hist[3] = Ev("gate", TRUE) /\ hist[4] = Ev("procesar", TRUE)

\* a commit of insertar_solicitud precedes position i of hist
TrasCommit(i) == \E j \in 1..(i - 1) : hist[j] = Ev("insertar", TRUE)

\* C8 (amended): the upload of the PDF and the email delivery happen strictly
\* after the transaction of insertar_solicitud has committed; the photos and
\* the invoice are uploaded before insertar_solicitud is called, so that an
\* upload of a photo or invoice can exist for a submission whose transaction
\* did not commit.
C8_PdfYEmailTrasCommit ==
    \A i \in 1..Len(hist) :
        /\ hist[i].ev \in {"subir_pdf", "enviar_email"} => TrasCommit(i)
        /\ hist[i].ev \in {"subir_foto", "subir_factura"} =>
              \A j \in 1..i : hist[j].ev # "insertar"

\* C8 witness: the invoice was uploaded, then the transaction committed, then
\* the PDF was uploaded and the email sent.
C8_Testigo ==
    \E i \in 1..Len(hist) : \E j \in 1..Len(hist) : \E k \in 1..Len(hist) : \E l \in 1..Len(hist) :
        /\ i < j /\ j < k /\ k < l
        /\ hist[i] = Ev("subir_factura", TRUE)
        /\ hist[j] = Ev("insertar", TRUE)
        /\ hist[k] = Ev("subir_pdf", TRUE)
        /\ hist[l] = Ev("enviar_email", TRUE)

\* C8 as originally stated: every upload made (photo, invoice, PDF) and the
\* email come after the commit of the submission's transaction.
C8_Original ==
    \A i \in 1..Len(hist) :
        (hist[i].ev \in {"subir_foto", "subir_factura", "subir_pdf", "enviar_email"} /\ hist[i].ok)
            => TrasCommit(i)

\* the columns of a Request row other than pdf_url
SinPdfUrl(fila) == [fila EXCEPT !.pdf_url = ""]

PostCommit == {"generar_pdf", "subir_pdf", "actualizar_pdf_url", "enviar_email"}

\* a step taken after the commit keeps every row, but for the pdf_url of a Request
PasoPostCommitConserva ==
    pc \in PostCommit =>
        /\ bd'.equipos = bd.equipos
        /\ bd'.archivos_adjuntos = bd.archivos_adjuntos
        /\ Len(bd'.solicitudes) = Len(bd.solicitudes)
        /\ \A j \in 1..Len(bd.solicitudes) :
              SinPdfUrl(bd'.solicitudes[j]) = SinPdfUrl(bd.solicitudes[j])

\* C9: once insertar_solicitud has committed, no later step of the run removes
\* or changes a Request, Equipment or Attachment row other than by setting
\* pdf_url; the request stays stored with status 'Pendiente' and the session
\* is marked formulario_enviado; and a failure of the PDF upload or of the
\* pdf_url update does not keep the email from being attempted (only a failed
\* PDF generation, on which the later steps depend, ends the run).
C9_FallosPostCommitNoDeshacen ==
    /\ [][PasoPostCommitConserva]_vars
    /\ []((Donde("insertar") # {} /\ \A i \in Donde("insertar") : hist[i].ok) =>
             /\ FormularioEnviado(session_state)
             /\ \E j \in 1..Len(bd.solicitudes) :
                   /\ bd.solicitudes[j].id = session_state.solicitud_id
                   /\ bd.solicitudes[j].estado = "Pendiente"
             /\ (pc = "form" /\ \E i \in Donde("generar_pdf") : hist[i].ok) =>
                   /\ Donde("subir_pdf") # {}
                   /\ Donde("enviar_email") # {})

\* C9 witness: after a commit the PDF upload failed and the email was still
\* sent; the run is over and the session is marked as submitted.
C9_Testigo ==
    /\ pc = "form"
    /\ FormularioEnviado(session_state)
    /\ \E i \in Donde("subir_pdf") : ~hist[i].ok
    /\ \E i \in Donde("enviar_email") : hist[i].ok
    /\ Len(correos) = 1 /\ Len(bd.solicitudes) = 1

\* the step in which the insert fails stores, uploads and sends nothing and ends the run
InsertFallidoNoDejaNada ==
    (pc = "insertar" /\ hist' = Append(hist, Ev("insertar", FALSE))) =>
        /\ bd'.solicitudes = bd.solicitudes
        /\ bd'.equipos = bd.equipos
        /\ bd'.archivos_adjuntos = bd.archivos_adjuntos
        /\ cloudinary' = cloudinary /\ correos' = correos
        /\ pc' = "form"

\* C10: when insertar_solicitud fails inside procesar_formulario the run ends
\* there: the tables hold what they held, no PDF is generated or uploaded, no
\* email is sent, formulario_enviado stays unset so that the form is shown
\* again, and the insert was attempted once.
C10_FalloDeInsertTerminaElEnvio ==
    /\ [][InsertFallidoNoDejaNada]_vars
    /\ [](/\ Cardinality(Donde("insertar")) <= 1
          /\ \A i \in Donde("insertar") :
                ~hist[i].ok =>
                    /\ i = Len(hist)
                    /\ pc = "form"
                    /\ ~FormularioEnviado(session_state)
                    /\ "pdf_bytes" \notin DOMAIN session_state)

\* C10 witness: the insert of a submit event failed after its invoice had been
\* uploaded; nothing is stored and the form is available again.
C10_Testigo ==
    /\ pc = "form"
    /\ hist # <<>> /\ hist[Len(hist)] = Ev("insertar", FALSE)
    /\ \E i \in Donde("subir_factura") : hist[i].ok
    /\ bd.solicitudes = <<>> /\ bd.equipos = <<>>
    /\ ~FormularioEnviado(session_state)
    /\ correos = <<>>

\* every Request row a step finds committed is the same after the step
FilasDeSolicitudIntactas ==
    \A j \in 1..Len(bd.solicitudes) :
        j <= Len(bd'.solicitudes) /\ bd'.solicitudes[j] = bd.solicitudes[j]

\* a Request row is added only by the insert step, one at a time and with an id no
\* other row has; a committed row changes only in the pdf_url step, only the row of
\* the request in progress, and only from no pdf_url to the URL of the uploaded PDF
SoloCambiaPdfUrl ==
    /\ Len(bd'.solicitudes) >= Len(bd.solicitudes)
    /\ Len(bd'.solicitudes) > Len(bd.solicitudes) =>
          /\ pc = "insertar"
          /\ Len(bd'.solicitudes) = Len(bd.solicitudes) + 1
          /\ \A j \in 1..Len(bd.solicitudes) :
                bd.solicitudes[j].id # bd'.solicitudes[Len(bd'.solicitudes)].id
          /\ bd'.solicitudes[Len(bd'.solicitudes)].pdf_url = ""
    /\ \A j \in 1..Len(bd.solicitudes) :
          \/ bd'.solicitudes[j] = bd.solicitudes[j]
          \/ /\ pc = "actualizar_pdf_url"
             /\ bd.solicitudes[j].id = loc.solicitud_id
             /\ bd.solicitudes[j].pdf_url = ""
             /\ bd'.solicitudes[j] =
                   [bd.solicitudes[j] EXCEPT !.pdf_url = Url("solicitudes_st/pdfs")]

\* C11 (as amended): a Request row is written once, by the insert at
\* submission, with no pdf_url; afterwards no step changes any of its columns
\* except pdf_url, which the step that follows a successful PDF upload sets
\* once, on the row of the request being processed only.
C11_SolicitudSoloRecibePdfUrl == [][SoloCambiaPdfUrl]_vars

\* C11 witness: two requests are stored; the first one kept its empty pdf_url
\* while the second one received the URL of its PDF.
C11_Testigo ==
    /\ Len(bd.solicitudes) = 2
    /\ bd.solicitudes[1].pdf_url = ""
    /\ bd.solicitudes[2].pdf_url = Url("solicitudes_st/pdfs")
    /\ \E i \in Donde("actualizar_pdf_url") : hist[i].ok

\* C11 as stated: no step changes any column of a committed Request row.
C11_Original == [][FilasDeSolicitudIntactas]_vars

\* the call of generar_codigo_categoria has been made and has returned
Codificado == arg.fn = "codigo" /\ ret.fn = "codigo"

\* C12: for every input dictionary the four special motives map to fixed
\* codes whatever the requester kind, ownership, origin, warranty and
\* equipment list: 'Equipo de Stock' -> 'S', 'Baja de demo' -> 'BD',
\* 'Baja de Alquiler' -> 'A/BA', 'Cambio de Alquiler' -> 'A/CA'.
C12_MotivosEspecialesFijos ==
    Codificado =>
        LET motivo == Get(arg.data, "motivo_solicitud") IN
        /\ motivo = "Equipo de Stock" => ret.res = "S"
        /\ motivo = "Baja de demo" => ret.res = "BD"
        /\ motivo = "Baja de Alquiler" => ret.res = "A/BA"
        /\ motivo = "Cambio de Alquiler" => ret.res = "A/CA"

\* C12 witness: a rental change asked by a patient who bought the equipment,
\* in warranty, with a flagged equipment row, is coded 'A/CA'.
C12_Testigo ==
    /\ Codificado
    /\ Get(arg.data, "motivo_solicitud") = "Cambio de Alquiler"
    /\ Get(arg.data, "quien_completa") = Q_PAC
    /\ Get(arg.data, "equipo_origen") = "Lo compró de manera directa"
    /\ Get(arg.data, "en_garantia") = "Sí"
    /\ Len(Get(arg.data, "equipos")) = 2
    /\ ret.res = "A/CA"

MotivosGenerales == {M_ST, M_PV, M_FC}

\* the code of a general motive, without prefix
CodigoGeneral(motivo) ==
    IF motivo = M_ST THEN "ST/R" ELSE IF motivo = M_PV THEN "AT" ELSE "FC"

\* warranty: the form-level answer when it is given, else any equipment row flagged
EnGarantia(d) ==
    IF Get(d, "en_garantia") \in {"Sí", "No", "No lo sé"}
    THEN Get(d, "en_garantia") = "Sí"
    ELSE \E i \in 1..Len(Get(d, "equipos")) :
            "en_garantia" \in DOMAIN d.equipos[i] /\ d.equipos[i].en_garantia

Organizaciones == {"Distribuidor", "Institución", "Colaborador de Syemed"}

\* the requester kind and its disambiguating field are given and recognised
Desambiguado(d) ==
    \/ /\ Get(d, "quien_completa") \in Organizaciones
       /\ Get(d, "equipo_propiedad") \in {"Alquilado", "Propio"}
    \/ /\ Get(d, "quien_completa") = "Paciente/Particular"
       /\ Get(d, "equipo_origen") \in {"Se lo entregaron", "Lo compró de manera directa"}

\* the ownership prefix of a disambiguated dictionary
Prefijo(d) ==
    IF Get(d, "quien_completa") \in Organizaciones
    THEN (IF Get(d, "equipo_propiedad") = "Alquilado" THEN "A/"
          ELSE IF EnGarantia(d) THEN "G/" ELSE "")
    ELSE (IF Get(d, "equipo_origen") = "Se lo entregaron" THEN ""
          ELSE IF EnGarantia(d) THEN "G/" ELSE "")

\* C13: for the three general motives the code is prefix + motive code: for
\* Distribuidor, Institución and Colaborador de Syemed the prefix is 'A/' when
\* the equipment is rented (whatever the warranty), 'G/' when owned with
\* warranty and empty when owned without; for Paciente/Particular it is empty
\* when the equipment was handed over, 'G/' when bought directly with warranty
\* and empty when bought directly without.  Warranty is the form-level answer
\* when given ('Sí' yes; 'No', 'No lo sé' no) and else any equipment row flagged.
C13_PrefijoMasCodigoDeMotivo ==
    (Codificado /\ Get(arg.data, "motivo_solicitud") \in MotivosGenerales
                /\ Desambiguado(arg.data)) =>
        ret.res = Prefijo(arg.data) \o CodigoGeneral(Get(arg.data, "motivo_solicitud"))

\* C13 witness: an institution's owned equipment, no form-level answer, whose
\* second row only is flagged in warranty, asking after-sales assistance: 'G/AT'.
C13_Testigo ==
    /\ Codificado
    /\ Get(arg.data, "motivo_solicitud") = M_PV
    /\ Get(arg.data, "quien_completa") = "Institución"
    /\ Get(arg.data, "equipo_propiedad") = "Propio"
    /\ "en_garantia" \notin DOMAIN arg.data
    /\ Len(Get(arg.data, "equipos")) = 2
    /\ arg.data.equipos[1] = [tipo_equipo |-> "CPAP", en_garantia |-> FALSE]
    /\ "en_garantia" \in DOMAIN arg.data.equipos[2] /\ arg.data.equipos[2].en_garantia
    /\ ret.res = "G/AT"

\* C14: generar_codigo_categoria returns for every dictionary, and returns
\* 'N/A' exactly when the motive is none of the seven recognised motives, or
\* it is a general motive and the requester kind, or the ownership (for an
\* organisation) or the origin (for a patient), is absent or unrecognised.
C14_NAExactamenteSinDatos ==
    Codificado =>
        /\ ret.res \in {"S", "BD", "A/BA", "A/CA", "N/A"}
                       \cup {pre \o cod : pre \in {"", "A/", "G/"}, cod \in {"ST/R", "AT", "FC"}}
        /\ ret.res = "N/A" <=>
              \/ Get(arg.data, "motivo_solicitud") \notin Motivos
              \/ /\ Get(arg.data, "motivo_solicitud") \in MotivosGenerales
                 /\ ~Desambiguado(arg.data)

\* C14 witness: a critical failure asked by a distributor whose ownership
\* answer is still empty is coded 'N/A'.
C14_Testigo ==
    /\ Codificado
    /\ Get(arg.data, "motivo_solicitud") = M_FC
    /\ Get(arg.data, "quien_completa") = "Distribuidor"
    /\ "equipo_propiedad" \in DOMAIN arg.data /\ arg.data.equipo_propiedad = ""
    /\ ret.res = "N/A"

\* the dictionary of the example: general service, owned, not in warranty, and nothing else
DiccionarioSinSolicitante ==
    Poner(Poner(Poner(DiccionarioVacio, "motivo_solicitud", M_ST), "equipo_propiedad", "Propio"),
          "en_garantia", "No")

\* C15 (as amended): for the dictionary that holds only the general-service
\* motive, equipo_propiedad = 'Propio' and en_garantia = 'No' the code is
\* 'N/A', because the requester kind is missing; with the requester kind
\* added (Distribuidor, Institución or Colaborador de Syemed) it is 'ST/R'.
C15_EjemploConSolicitante ==
    Codificado =>
        /\ arg.data = DiccionarioSinSolicitante => ret.res = "N/A"
        /\ \A q \in Organizaciones :
              arg.data = Poner(DiccionarioSinSolicitante, "quien_completa", q) =>
                  ret.res = "ST/R"

\* C15 witness: the function was called with the dictionary of the example
\* plus the requester kind 'Distribuidor' and returned 'ST/R'.
C15_Testigo ==
    /\ Codificado
    /\ arg.data = Poner(DiccionarioSinSolicitante, "quien_completa", "Distribuidor")
    /\ ret.res = "ST/R"

\* C15 as stated: the dictionary without requester kind is coded 'ST/R'.
C15_Original ==
    (Codificado /\ arg.data = DiccionarioSinSolicitante) => ret.res = "ST/R"

\* the call of validar_archivo_completo has been made and has returned
ArchivoValidado == arg.fn = "archivo" /\ ret.fn = "archivo"

\* the extension of a file name: what follows its last dot, in lower case
Extension(name) == Lower(name[Len(name)])

Denegadas == {"exe", "bat", "cmd", "sh", "ps1", "scr", "vbs", "js", "jar", "com", "pif",
              "msi", "dll", "sys"}

\* the size ceiling, in megabytes, of the category of an extension (0: no category)
TechoMB(ext) ==
    IF ext \in EXT_IMAGENES THEN 10
    ELSE IF ext \in EXT_VIDEOS THEN 50
    ELSE IF ext \in EXT_DOCUMENTOS THEN 5
    ELSE 0

\* the name, extension and size conditions of the file validator
PasaNombreExtensionTamano(archivo) ==
    /\ Extension(archivo.name) \notin Denegadas
    /\ Len(archivo.name) - 1 <= 1
    /\ TechoMB(Extension(archivo.name)) > 0
    /\ archivo.size <= TechoMB(Extension(archivo.name)) * 1024 * 1024

\* C17: validar_archivo_completo accepts a file only if its name does not end
\* in a denylisted extension, holds at most one dot, its extension is in the
\* allowlist of a category (image, video, document) and its size does not
\* exceed the ceiling of that category (10 MB, 50 MB, 5 MB): 'invoice.pdf.exe'
\* and a 60 MB .jpg are rejected.
C17_ArchivoAceptadoCumpleReglas ==
    ArchivoValidado =>
        /\ ret.res => PasaNombreExtensionTamano(arg.archivo)
        /\ arg.archivo.name = <<"invoice", "pdf", "exe">> => ~ret.res
        /\ (Extension(arg.archivo.name) = "jpg" /\ arg.archivo.size = 60 * 1024 * 1024) => ~ret.res

\* C17 witness: with content sniffing available, a video of exactly 50 MB is accepted.
C17_Testigo ==
    /\ ArchivoValidado
    /\ arg.magic_disponible
    /\ arg.archivo = [name |-> <<"video", "mp4">>, size |-> 50 * 1024 * 1024, mime |-> "video/mp4"]
    /\ ret.res

\* C18: when python-magic is unavailable the MIME check is skipped without
\* failing: every file that passes the name, extension and size checks is accepted.
C18_SinMagicSeOmiteMime ==
    (ArchivoValidado /\ ~arg.magic_disponible /\ PasaNombreExtensionTamano(arg.archivo))
        => ret.res

\* st.session_state.intentos_sospechosos, 0 while the key does not exist
Contador(ss) == IF "intentos_sospechosos" \in DOMAIN ss THEN ss.intentos_sospechosos ELSE 0

\* C16: rate limiter.  In one session, after 5 submissions have been accepted
\* by the security gate within a 60-minute window, a 6th submit attempt inside
\* that window is rejected: no submit event is approved when 5 earlier ones of
\* the session were approved less than 60 minutes before it.
C16_SextaEnVentanaRechazada ==
    \A i \in 1..Len(aprobadas) :
        Cardinality({j \in 1..(i - 1) : aprobadas[i] - aprobadas[j] < 60}) < 5

\* the step is a rerun in which the captcha answer or a check of the gate failed
FallaUnControl ==
    /\ pc = "form" /\ hist' # hist
    /\ \E i \in 1..Len(hist') : hist'[i].ev \in {"captcha", "gate"} /\ ~hist'[i].ok

CadaFalloCuentaUno ==
    IF FallaUnControl
    THEN Contador(session_state') = Contador(session_state) + 1
    ELSE Contador(session_state') = Contador(session_state)

\* C19: every failed security check of a session (rate limit exceeded,
\* honeypot filled, invalid file, wrong captcha answer, email rejected by the
\* sanitizer) increments intentos_sospechosos by exactly one, and nothing
\* else changes that counter.
C19_CadaFalloIncrementaContador == [][CadaFalloCuentaUno]_vars

BloqueadoNoAvanza ==
    Contador(session_state) >= 3 =>
        /\ pc' = "form"
        /\ aprobadas' = aprobadas
        /\ bd' = bd

\* C20: once intentos_sospechosos has reached 3 the session is hard-stopped:
\* in every later rerun nothing can be submitted and no request is persisted.
C20_TresFallosDetienenLaSesion == [][BloqueadoNoAvanza]_vars

\* the step is a submit event (a click moves the clock)
EsClic == reloj' # reloj

\* the question of the captcha stays the same while the session state holds it
CaptchaEstable ==
    "captcha_respuesta" \in DOMAIN session_state =>
        \/ "captcha_respuesta" \notin DOMAIN session_state'
        \/ session_state'.captcha_respuesta = session_state.captcha_respuesta

\* hist still holds the previous submit event of the same challenge (a new challenge
\* is drawn only after "Crear Nueva Solicitud", which empties hist): the answer that
\* event accepted is not accepted by this one
CaptchaDeUnSoloUso ==
    (EsClic /\ hist # <<>> /\ hist[2] = Ev("captcha", TRUE)) => hist'[2] # Ev("captcha", TRUE)

\* C21: the captcha is the sum of two integers in 1..5, generated once per
\* session (reruns keep the question while the session state lasts), and
\* single-use: an answer accepted for one submit attempt is not accepted for a
\* later submit attempt of the session unless a new challenge was generated.
C21_CaptchaUnaVezYDeUnSoloUso ==
    /\ []("captcha_respuesta" \in DOMAIN session_state => session_state.captcha_respuesta \in 2..10)
    /\ [][CaptchaEstable]_vars
    /\ [][CaptchaDeUnSoloUso]_vars

\* the rate-limit history a step finds: the accepted submissions and the key of the session
HistorialDe(ss) == Get(ss, "rate_limit")

\* a step keeps the entries of the history that are less than 60 minutes old at the
\* time of the step, and the user_id they are stored under
HistorialSoloExpira ==
    /\ \A i \in 1..Len(HistorialDe(session_state)) :
          reloj' - HistorialDe(session_state)[i] < 60 =>
              \E j \in 1..Len(HistorialDe(session_state')) :
                  HistorialDe(session_state')[j] = HistorialDe(session_state)[i]
    /\ "user_id" \in DOMAIN session_state =>
          "user_id" \in DOMAIN session_state' /\ session_state'.user_id = session_state.user_id

\* C27: within a browser session the rate-limit history shrinks only by
\* expiry: every user action, 'Crear Nueva Solicitud' included, keeps the
\* timestamps of the accepted submissions that are less than 60 minutes old
\* and the session key they are stored under.
C27_HistorialSoloExpira == [][HistorialSoloExpira]_vars

\* the call of sanitizar_texto has been made and has returned
Sanitizado == arg.fn = "texto" /\ ret.fn = "texto"

\* the characters the sanitizer must not let through ("backtick": the grave accent)
Prohibidos == {"<", ">", "{", "}", "|", "\\", "^", "~", "[", "]", "backtick"}

Blanco(c) == c \in {" ", "\t", "\n"}

\* C23: for every text and every max_length, sanitizar_texto returns a text of
\* at most max_length characters that holds none of < > { } | \ ^ ~ [ ] `, has
\* no blank at either end and no two blanks in a row, and sanitizing the result
\* again with the same max_length gives the result back.
C23_SanitizarTextoAcotaLimpiaYEsIdempotente ==
    Sanitizado =>
        LET r == ret.res IN
        /\ Len(r) <= arg.max_length
        /\ \A i \in 1..Len(r) : r[i] \notin Prohibidos
        /\ r # <<>> => ~Blanco(r[1]) /\ ~Blanco(r[Len(r)])
        /\ \A i \in 1..(Len(r) - 1) : ~(Blanco(r[i]) /\ Blanco(r[i + 1]))
        /\ ret.otra_vez = r

\* C23 witness: the text 'a', blank, tab, 'a' with max_length 4 came back as
\* 'a a', and sanitizing 'a a' again gave 'a a'.
C23_Testigo ==
    /\ Sanitizado
    /\ arg.texto = <<"a", " ", "\t", "a">> /\ arg.max_length = 4
    /\ ret.res = <<"a", " ", "a">>
    /\ ret.otra_vez = <<"a", " ", "a">>

\* the Attachment rows the call added to the database
AdjuntosNuevos ==
    SubSeq(ret.res.bd.archivos_adjuntos, Len(arg.base.archivos_adjuntos) + 1,
           Len(ret.res.bd.archivos_adjuntos))

\* C24: a successful insertar_solicitud commits exactly one Attachment row per
\* entry of archivos_urls, in order, each belonging to the new Request; an
\* invoice that applies to all equipment references the first Equipment row of
\* the request, a photo or video with equipment number k references the k-th
\* Equipment row inserted for the request, and the reference is null when
\* there is no such row; a reference that is not null is an Equipment row of
\* the same Request.
C24_UnAdjuntoPorArchivoConSuEquipo ==
    (Insertado /\ ret.res.exito) =>
        LET urls == Get(arg.data, "archivos_urls")
            adj == AdjuntosNuevos
            filas == FilasNuevas
            todas == ret.res.bd.equipos
        IN /\ Len(adj) = Len(urls)
           /\ \A p \in 1..Len(adj) :
                 /\ adj[p].solicitud_id = ret.res.solicitud_id
                 /\ adj[p].url_cloudinary = urls[p].url
                 /\ adj[p].nombre_archivo = urls[p].nombre
                 /\ urls[p].tipo = "factura" =>
                       adj[p].equipo_id = (IF filas = <<>> THEN 0 ELSE filas[1].id)
                 /\ urls[p].tipo = "foto_video" =>
                       adj[p].equipo_id = (IF urls[p].equipo_num <= Len(filas)
                                           THEN filas[urls[p].equipo_num].id ELSE 0)
                 /\ adj[p].equipo_id # 0 =>
                       \E i \in 1..Len(todas) :
                           /\ todas[i].id = adj[p].equipo_id
                           /\ todas[i].solicitud_id = ret.res.solicitud_id

\* C24 witness: next to an earlier request, a request with two Equipment rows,
\* a photo of equipment 2 and an invoice for all was stored: the photo points
\* to the second new row and the invoice to the first.
C24_Testigo ==
    /\ Insertado /\ ret.res.exito
    /\ arg.base = BDPrevia
    /\ Len(FilasNuevas) = 2
    /\ Len(AdjuntosNuevos) = 2
    /\ arg.data.archivos_urls[1].tipo = "foto_video" /\ arg.data.archivos_urls[1].equipo_num = 2
    /\ arg.data.archivos_urls[2].tipo = "factura"
    /\ AdjuntosNuevos[1].equipo_id = FilasNuevas[2].id
    /\ AdjuntosNuevos[2].equipo_id = FilasNuevas[1].id
    /\ FilasNuevas[1].id # 1

\* the call of aplicar_seguridad_formulario has been made and has returned
Asegurado == arg.fn = "seguridad" /\ ret.fn = "seguridad"

\* the gate turned the attempt down, counted a suspicious event and did not count
\* the attempt as an accepted submission
RechazadoComoSospechoso ==
    /\ ~ret.res.aprobado
    /\ Contador(ret.res.ss) = Contador(arg.ss) + 1
    /\ \A i \in 1..Len(Get(ret.res.ss, "rate_limit")) : ret.res.ss.rate_limit[i] # arg.ahora

\* the hidden field holds something other than blanks
ConTexto(honeypot) == \E i \in 1..Len(honeypot) : ~Blanco(honeypot[i])

\* C22 (as amended): for every submit attempt, if the hidden honeypot field
\* holds any character that is not a blank the security gate rejects the
\* attempt and records a suspicious event; if the field is empty or holds
\* blanks only, the honeypot check passes.
C22_HoneypotConTextoRechaza ==
    Asegurado =>
        /\ ConTexto(arg.honeypot) => RechazadoComoSospechoso
        /\ ~ConTexto(arg.honeypot) => ret.res.razon # "HONEYPOT_LLENO"

\* C22 witness: in a session with one suspicious event on record a valid form
\* came with 'bot' in the hidden field; the gate rejected it for the honeypot
\* and the counter is 2.
C22_Testigo ==
    /\ Asegurado
    /\ arg.honeypot = <<"b", "o", "t">>
    /\ Contador(arg.ss) = 1
    /\ ~ret.res.aprobado /\ ret.res.razon = "HONEYPOT_LLENO"
    /\ Contador(ret.res.ss) = 2

\* C22 as stated: any non-empty value of the hidden field, one made of blanks
\* included, is rejected as suspicious.
C22_Original ==
    Asegurado =>
        /\ arg.honeypot # <<>> => RechazadoComoSospechoso
        /\ arg.honeypot = <<>> => ret.res.razon # "HONEYPOT_LLENO"

\* C29: no double submission.  The Requests committed in the session are as
\* many as form_key, plus one once the session is marked formulario_enviado:
\* for each value of form_key at most one Request is committed.  A Request is
\* committed only while the session is not marked, and the commit marks it;
\* while it is marked no submit event is accepted; form_key never decreases
\* and grows by one exactly when 'Crear Nueva Solicitud' clears the session.
UnaSolicitudPorFormKey ==
    Len(bd.solicitudes) <= session_state.form_key + (IF FormularioEnviado(session_state) THEN 1 ELSE 0)

SinDobleEnvio ==
    /\ Len(bd'.solicitudes) > Len(bd.solicitudes) =>
          /\ ~FormularioEnviado(session_state) /\ FormularioEnviado(session_state')
          /\ Len(bd'.solicitudes) = Len(bd.solicitudes) + 1
    /\ FormularioEnviado(session_state) => aprobadas' = aprobadas /\ reloj' = reloj
    /\ session_state'.form_key >= session_state.form_key
    /\ session_state'.form_key # session_state.form_key =>
          /\ FormularioEnviado(session_state) /\ pc = "form"
          /\ session_state' = [form_key |-> session_state.form_key + 1]

FilasDeLaSolicitud == SelectSeq(bd.equipos, LAMBDA f : f.solicitud_id = loc.solicitud_id)

\* the PDF of the run in progress has been generated
PdfGenerado == pc \in {"subir_pdf", "actualizar_pdf_url", "enviar_email"}

\* C30: for every request persisted through procesar_formulario, the
\* equipment table of the PDF lists the entries that insertar_solicitud turned
\* into Equipment rows, in the same order, the k-th entry labelled with the
\* tracking number of the k-th row; when no Equipment row was inserted
\* (after-sales assistance) every listed entry is labelled 'N/A' and the title
\* carries the request id.
C30_TablaDelPdfSigueLasFilas ==
    PdfGenerado =>
        LET filas == FilasDeLaSolicitud
            tabla == loc.pdf.tabla
        IN IF filas # <<>>
           THEN /\ Len(tabla) = Len(filas)
                /\ \A k \in 1..Len(filas) :
                      /\ tabla[k].ost = filas[k].ost
                      /\ tabla[k].tipo_equipo = filas[k].tipo_equipo
                      /\ tabla[k].marca = filas[k].marca
                      /\ tabla[k].modelo = filas[k].modelo
                      /\ tabla[k].numero_serie = filas[k].numero_serie
                /\ loc.pdf.titulo = filas[1].ost
           ELSE /\ \A k \in 1..Len(tabla) : tabla[k].ost = 0
                /\ loc.pdf.titulo = loc.solicitud_id

\* C30 witness: after an insert that failed and left a gap in the tracking
\* numbers, a request was stored with one Equipment row whose number is not
\* its position, and the PDF lists that entry under that number.
C30_Testigo ==
    /\ PdfGenerado
    /\ Len(FilasDeLaSolicitud) = 1
    /\ FilasDeLaSolicitud[1].ost > 1
    /\ Len(loc.pdf.tabla) = 1
    /\ loc.pdf.tabla[1].ost = FilasDeLaSolicitud[1].ost

\* C28: for every form state that can be submitted, along every path of the
\* form (every requester kind, every 'equipment corresponds to' choice of a
\* Colaborador de Syemed, every motive offered on the path), the category code
\* stored with the Request and placed in the email subject is a real code,
\* never the fallback 'N/A'.
C28_CategoriaNuncaNA ==
    /\ \A i \in 1..Len(bd.solicitudes) : bd.solicitudes[i].categoria # "N/A"
    /\ \A i \in 1..Len(correos) : correos[i].categoria # "N/A"

\* C25: every file uploaded to object storage by procesar_formulario (the
\* photos of the equipment and the warranty invoice) is one that
\* validar_archivo_completo accepts, as the security gate of the submit event
\* would have required.
C25_TodoArchivoSubidoFueValidado ==
    \A i \in 1..Len(cloudinary) :
        cloudinary[i].carpeta \in {"solicitudes_st/fotos", "solicitudes_st/facturas"} =>
            validar_archivo_completo(cloudinary[i].archivo, entorno.magic_disponible)

\* C26: whenever insertar_solicitud is called by the form flow, the dictionary
\* it receives passes validar_campos_obligatorios without errors; every
\* committed Request whose motive is not after-sales assistance has at least
\* one Equipment row.
C26_InsertarRecibeDatosValidos ==
    /\ pc = "insertar" => validar_campos_obligatorios(loc.data).es_valido
    /\ \A i \in 1..Len(bd.solicitudes) :
          bd.solicitudes[i].motivo_solicitud # M_PV =>
              \E j \in 1..Len(bd.equipos) : bd.equipos[j].solicitud_id = bd.solicitudes[i].id

====
